---------------------------- MODULE Spec2Model ----------------------------
(***************************************************************************)
(* Paper Trading Engine (src/src/lib/paper-trading/WORKLOG.md, the listing *)
(* of engine.ts, lines 129-1262): accounts, positions, price ticks,        *)
(* take-profit partial closes, stop-loss, liquidation, trades.             *)
(*                                                                         *)
(* Amounts are integers.  The engine's floating-point products and         *)
(* quotients are computed with Div (floor); the input sets below are       *)
(* chosen so that the quotients of the manual scenarios are exact.         *)
(* Dates (openedAt, closedAt, timestamps, durations) are not modelled; the *)
(* only use of the clock that decides behaviour, the 60 s rate limit of    *)
(* recordEquityPoint, is the flag recordDue of an account.                 *)
(***************************************************************************)
EXTENDS Integers, Sequences, FiniteSets, TLC

VARIABLES accounts, positionIdCounter, eventCallbacks,
          db, responses, invocations, strategies, runningStrategies

\* the state outside the paper trading engine: the database of the webhook and of the
\* Telegram bot, the responses of the webhook, the Telegram executions in flight, and
\* the maps of the strategy manager
otherVars == <<db, responses, invocations, strategies, runningStrategies>>

engineVars == <<accounts, positionIdCounter, eventCallbacks>>

vars == <<accounts, positionIdCounter, eventCallbacks,
          db, responses, invocations, strategies, runningStrategies>>

-----------------------------------------------------------------------------
(* Bounds of the model *)

\* positions ever created by the engine (positionIdCounter never exceeds it)
MaxPositions == 2
\* equity-curve points per account beyond which the clock no longer advances
MaxCurve == 2
\* subscribed callbacks
MaxCallbacks == 2

AccountIds == {"paper-1"}
\* cbThrows is a callback that throws on every event
Callbacks == {"cb1", "cbThrows"}
ThrowingCallbacks == {"cbThrows"}
\* cbOnce is a callback that unsubscribes itself when it receives an event; it is
\* subscribed only where createAccount is the one operation that emits
SelfUnsubscribing == {"cbOnce"}
\* BTCUSDT carries the variety of the requests (options, signals); ETHUSDT is the
\* second symbol of an account, opened by plain manual requests, and the one on
\* which a position is opened again after an earlier one
Symbols == {"BTCUSDT", "ETHUSDT"}
CandleSymbols == {"BTCUSDT"}
ReopenSymbols == {"ETHUSDT"}
Directions == {"LONG", "SHORT"}
\* a price of 0 in a price record stands for "no price for this symbol"
TickPrices == {0, 900, 1100, 1200}
EntryPrices == {1000}
ManualSizes == {8}
\* 0 stands for an option that is not given
LeverageOptions == {0, 1}
StopLossOptions == {0, 1100}
TakeProfitOptions == {0, 1100}
ManualReasons == {"MANUAL"}

-----------------------------------------------------------------------------
(* Arithmetic helpers *)

Div(a, b) == a \div b

Max(a, b) == IF a >= b THEN a ELSE b

\* size * price * (feePercent / 100)
Fee(size, price, feePercent) == Div(size * price * feePercent, 100)

\* (price - avgEntryPrice) * size for LONG, (avgEntryPrice - price) * size for SHORT
Pnl(direction, avgEntryPrice, price, size) ==
    IF direction = "LONG" THEN (price - avgEntryPrice) * size
                          ELSE (avgEntryPrice - price) * size

\* profitPercent >= activationProfit, where
\* profitPercent = (unrealizedPnl / margin) * 100 may be NaN or +-Infinity
PnlPercentAtLeast(unrealizedPnl, margin, threshold) ==
    IF margin > 0 THEN unrealizedPnl * 100 >= threshold * margin
    ELSE IF margin < 0 THEN unrealizedPnl * 100 <= threshold * margin
    ELSE unrealizedPnl > 0

-----------------------------------------------------------------------------
(* Tactics sets and account configurations *)

NoTrailing == [present |-> FALSE, activationProfit |-> 0, percentValue |-> 0]

\* stop-loss 5 %, one target at +10 % closing everything
TacticsSingleTP ==
    [id |-> "single", slPrice |-> 0, slPercent |-> 5,
     hasTargets |-> TRUE,
     targets |-> <<[price |-> 0, profitPercent |-> 10, closePercent |-> 100]>>,
     tpPrice |-> 0, tpPercent |-> 0, trailing |-> NoTrailing]

\* no stop-loss, two targets of 50 %, trailing stop of 5 % active from +50 %
TacticsTrailing ==
    [id |-> "trail", slPrice |-> 0, slPercent |-> 0,
     hasTargets |-> TRUE,
     targets |-> <<[price |-> 0, profitPercent |-> 10, closePercent |-> 50],
                   [price |-> 0, profitPercent |-> 20, closePercent |-> 50]>>,
     tpPrice |-> 0, tpPercent |-> 0,
     trailing |-> [present |-> TRUE, activationProfit |-> 50, percentValue |-> 5]]

BaseConfig ==
    [initialBalance |-> 8000, maxLeverage |-> 10, feePercent |-> 1,
     maxRiskPerTrade |-> 50, maxOpenPositions |-> 2, maxDrawdown |-> 20,
     autoTrading |-> TRUE,
     tacticsSets |-> <<TacticsSingleTP>>]

Configs ==
    {BaseConfig,
     [BaseConfig EXCEPT !.tacticsSets = <<TacticsTrailing>>, !.maxOpenPositions = 1]}

-----------------------------------------------------------------------------
(* Events *)

\* emitEvent: every subscribed callback is called with the event; emitted is the
\* log of the events emitted for the account during the operation in progress, and
\* delivered the log of the calls of the callbacks (nothing is observed while no
\* callback is subscribed)
\* callbacks.splice(callbacks.indexOf(callback), 1)
Spliced(callbacks, callback) ==
    LET at == {k \in 1..Len(callbacks) : callbacks[k] = callback} IN
    IF at = {} THEN callbacks
    ELSE LET index == CHOOSE k \in at : \A j \in at : k <= j
         IN  [k \in 1..(Len(callbacks) - 1) |->
                 IF k < index THEN callbacks[k] ELSE callbacks[k + 1]]

RECURSIVE EmitEventLoop(_, _, _, _)
\* "for (const callback of this.eventCallbacks)": the iterator reads the array by
\* index at each step, so it sees what a callback has done to the array; a callback
\* of SelfUnsubscribing calls unsubscribe on itself when it is called.  The result is
\* the array after the loop and the calls made.
EmitEventLoop(callbacks, k, calls, type) ==
    IF k > Len(callbacks) THEN [callbacks |-> callbacks, calls |-> calls]
    ELSE EmitEventLoop(IF callbacks[k] \in SelfUnsubscribing
                       THEN Spliced(callbacks, callbacks[k]) ELSE callbacks,
                       k + 1,
                       Append(calls, [callback |-> callbacks[k], type |-> type]),
                       type)

\* the calls made by a loop that the first throwing callback leaves
DeliveriesUntilThrow(type) ==
    LET throwing == {k \in 1..Len(eventCallbacks) : eventCallbacks[k] \in ThrowingCallbacks}
        last     == IF throwing = {} THEN Len(eventCallbacks)
                    ELSE CHOOSE k \in throwing : \A j \in throwing : k <= j
    IN  [k \in 1..last |-> [callback |-> eventCallbacks[k], type |-> type]]

\* the calls of callback(event) made by the loop of emitEvent, in order: the loop goes
\* on after a callback that throws (try/catch around each call)
Deliveries(type) == EmitEventLoop(eventCallbacks, 1, <<>>, type).calls

Emit(a, type) ==
    IF eventCallbacks = <<>> THEN a
    ELSE [a EXCEPT !.emitted = Append(@, type),
                   !.delivered = @ \o Deliveries(type)]

-----------------------------------------------------------------------------
(* Account aggregates *)

RECURSIVE SumUnrealizedOpen(_)
\* positions.filter(p => p.status === "OPEN").reduce((sum, p) => sum + p.unrealizedPnl, 0)
SumUnrealizedOpen(ps) ==
    IF ps = <<>> THEN 0
    ELSE (IF Head(ps).status = "OPEN" THEN Head(ps).unrealizedPnl ELSE 0)
         + SumUnrealizedOpen(Tail(ps))

\* ((maxEquity - equity) / maxEquity) * 100
Drawdown(maxEquity, equity) == Div((maxEquity - equity) * 100, maxEquity)

CreateEmptyMetrics ==
    [totalTrades |-> 0, winningTrades |-> 0, losingTrades |-> 0, winRate |-> 0,
     maxWinStreak |-> 0, maxLossStreak |-> 0,
     currentStreak |-> [type |-> "NONE", count |-> 0]]

\* the body of the streak loop with currentStreak counted on across a change of type
StreakStepNoReset(st, trade) ==
    IF trade.pnl > 0
    THEN [st EXCEPT !.currentType = "WIN", !.currentStreak = @ + 1,
                    !.maxWinStreak = Max(@, st.currentStreak + 1)]
    ELSE [st EXCEPT !.currentType = "LOSS", !.currentStreak = @ + 1,
                    !.maxLossStreak = Max(@, st.currentStreak + 1)]

\* the body of "for (const trade of trades)": one trade added to the streak counters
StreakStep(st, trade) ==
    IF trade.pnl > 0
    THEN LET c == IF st.currentType = "WIN" THEN st.currentStreak + 1 ELSE 1
         IN  [st EXCEPT !.currentType = "WIN", !.currentStreak = c,
                        !.maxWinStreak = Max(@, c)]
    ELSE LET c == IF st.currentType = "LOSS" THEN st.currentStreak + 1 ELSE 1
         IN  [st EXCEPT !.currentType = "LOSS", !.currentStreak = c,
                        !.maxLossStreak = Max(@, c)]

RECURSIVE StreakLoop(_, _, _)
StreakLoop(trades, k, st) ==
    IF k > Len(trades) THEN st
    ELSE StreakLoop(trades, k + 1, StreakStep(st, trades[k]))

\* trades.filter(t => t.pnl > 0)
Wins(trades) == {k \in 1..Len(trades) : trades[k].pnl > 0}

\* trades.filter(t => t.pnl <= 0)
Losses(trades) == {k \in 1..Len(trades) : trades[k].pnl <= 0}

\* the fields of the metrics that are counts of trades, the win rate and the streaks
CalculateFullMetrics(a) ==
    LET trades == a.tradeHistory
        st     == StreakLoop(trades, 1,
                      [maxWinStreak |-> 0, maxLossStreak |-> 0,
                       currentStreak |-> 0, currentType |-> "NONE"])
    IN  [totalTrades |-> Len(trades),
         winningTrades |-> Cardinality(Wins(trades)),
         losingTrades |-> Cardinality(Losses(trades)),
         winRate |-> IF Len(trades) > 0
                     THEN Div(Cardinality(Wins(trades)) * 100, Len(trades)) ELSE 0,
         maxWinStreak |-> st.maxWinStreak, maxLossStreak |-> st.maxLossStreak,
         currentStreak |-> [type |-> st.currentType, count |-> st.currentStreak]]

UpdateAccountMetrics(a) ==
    LET unreal == SumUnrealizedOpen(a.positions)
        eq     == a.balance + unreal
        maxEq  == Max(a.maxEquity, eq)
        dd     == Drawdown(maxEq, eq)
        a1     == [a EXCEPT !.unrealizedPnl = unreal,
                            !.equity = eq,
                            !.availableMargin = a.balance,
                            !.maxEquity = maxEq,
                            !.currentDrawdown = dd,
                            !.maxDrawdown = Max(@, dd),
                            !.totalPnl = eq - a.initialBalance]
        a2     == [a1 EXCEPT !.metrics = CalculateFullMetrics(a1)]
    IN  IF dd >= a.config.maxDrawdown THEN Emit(a2, "MAX_DRAWDOWN_REACHED") ELSE a2

\* recordDue is "now - lastEquityRecordTime >= 60000"
RecordEquityPoint(a) ==
    IF ~a.recordDue /\ Len(a.equityCurve) > 0 THEN a
    ELSE LET unreal == SumUnrealizedOpen(a.positions)
             eq     == a.balance + unreal
             maxEq  == Max(a.maxEquity, eq)
             dd     == Drawdown(maxEq, eq)
         IN  [a EXCEPT !.recordDue = FALSE,
                       !.unrealizedPnl = unreal,
                       !.equity = eq,
                       !.maxEquity = maxEq,
                       !.currentDrawdown = dd,
                       !.maxDrawdown = Max(@, dd),
                       !.totalPnl = eq - a.initialBalance,
                       !.equityCurve = Append(@, [balance |-> a.balance, equity |-> eq])]

-----------------------------------------------------------------------------
(* Positions *)

\* calculateLiquidationPrice with the two directions exchanged
CalculateLiquidationPriceSwapped(entryPrice, direction, leverage) ==
    IF direction = "LONG" THEN Div(entryPrice * (leverage + 1), leverage)
                          ELSE Div(entryPrice * (leverage - 1), leverage)

\* entryPrice * (1 -+ (100 / leverage) / 100)
CalculateLiquidationPrice(entryPrice, direction, leverage) ==
    IF direction = "LONG" THEN Div(entryPrice * (leverage - 1), leverage)
                          ELSE Div(entryPrice * (leverage + 1), leverage)

\* riskAmount = balance * (maxRiskPerTrade / 100); riskAmount / price
CalculatePositionSize(a, price) == Div(a.balance * a.config.maxRiskPerTrade, 100 * price)

\* canOpenPosition without the test for an open position on the same symbol
CanOpenPositionAnySymbol(a, symbol) ==
    Cardinality({i \in 1..Len(a.positions) : a.positions[i].status = "OPEN"})
        < a.config.maxOpenPositions

CanOpenPosition(a, symbol) ==
    LET open == {i \in 1..Len(a.positions) : a.positions[i].status = "OPEN"}
    IN  /\ Cardinality(open) < a.config.maxOpenPositions
        /\ ~\E i \in open : a.positions[i].symbol = symbol

\* tacticsSet || account.config.tacticsSets[0]; <<>> stands for undefined
ChooseTactics(a, tacticsSet) ==
    IF tacticsSet # <<>> THEN tacticsSet
    ELSE IF Len(a.config.tacticsSets) > 0 THEN <<a.config.tacticsSets[1]>> ELSE <<>>

\* createPosition throws a TypeError at tactics.stopLoss.slPrice or at
\* tactics.takeProfit.targets when the tactics set lacks the stopLoss or the
\* takeProfit object (a tactics record of the model without their fields)
CreatePositionThrows(a, tacticsSet) ==
    /\ ChooseTactics(a, tacticsSet) # <<>>
    /\ ~({"slPrice", "hasTargets"} \subseteq DOMAIN ChooseTactics(a, tacticsSet)[1])

SelectTactics(a) ==
    IF Len(a.config.tacticsSets) > 0 THEN <<a.config.tacticsSets[1]>> ELSE <<>>

TacticsStopLoss(t, direction, price) ==
    IF t.slPrice # 0 THEN t.slPrice
    ELSE IF t.slPercent # 0
         THEN IF direction = "LONG" THEN Div(price * (100 - t.slPercent), 100)
                                    ELSE Div(price * (100 + t.slPercent), 100)
         ELSE 0

TargetPrice(t, direction, price) ==
    IF t.price # 0 THEN t.price
    ELSE IF direction = "LONG" THEN Div(price * (100 + t.profitPercent), 100)
                               ELSE Div(price * (100 - t.profitPercent), 100)

TacticsTargets(t, direction, price) ==
    IF t.hasTargets
    THEN [k \in 1..Len(t.targets) |->
            [index |-> k, price |-> TargetPrice(t.targets[k], direction, price),
             closePercent |-> t.targets[k].closePercent, filled |-> FALSE]]
    ELSE IF t.tpPrice # 0
         THEN <<[index |-> 1, price |-> t.tpPrice, closePercent |-> 100, filled |-> FALSE]>>
    ELSE IF t.tpPercent # 0
         THEN <<[index |-> 1,
                 price |-> IF direction = "LONG" THEN Div(price * (100 + t.tpPercent), 100)
                                                 ELSE Div(price * (100 - t.tpPercent), 100),
                 closePercent |-> 100, filled |-> FALSE]>>
    ELSE <<>>

NoTrailingState ==
    [present |-> FALSE, activated |-> FALSE, activationProfit |-> 0, percentValue |-> 0,
     highestPrice |-> 0, lowestPrice |-> 0, currentStopPrice |-> 0]

TrailingStateOf(cfg) ==
    IF cfg.present
    THEN [NoTrailingState EXCEPT !.present = TRUE,
                                 !.activationProfit = cfg.activationProfit,
                                 !.percentValue = cfg.percentValue]
    ELSE NoTrailingState

\* the position built by createPosition; the balance is charged by CreatePosition
NewPosition(a, id, symbol, direction, size, price, leverage, tacticsSet) ==
    LET fee     == Fee(size, price, a.config.feePercent)
        tactics == ChooseTactics(a, tacticsSet)
        has     == tactics # <<>>
    IN  [id |-> id, symbol |-> symbol, direction |-> direction, status |-> "OPEN",
         avgEntryPrice |-> price,
         entries |-> <<[index |-> 1, price |-> price, size |-> size, fee |-> fee]>>,
         totalSize |-> size, exits |-> <<>>, avgExitPrice |-> 0, closeReason |-> "",
         currentPrice |-> price,
         stopLoss |-> IF has THEN TacticsStopLoss(tactics[1], direction, price) ELSE 0,
         takeProfitTargets |-> IF has THEN TacticsTargets(tactics[1], direction, price) ELSE <<>>,
         unrealizedPnl |-> 0, realizedPnl |-> 0, totalFees |-> fee,
         leverage |-> leverage, margin |-> Div(size * price, leverage),
         liquidationPrice |-> CalculateLiquidationPrice(price, direction, leverage),
         tacticsSetId |-> IF has THEN tactics[1].id ELSE "",
         trailingState |-> IF has THEN TrailingStateOf(tactics[1].trailing)
                                  ELSE NoTrailingState]

\* account.balance -= margin + fee
ChargeOpen(a, size, price, leverage) ==
    [a EXCEPT !.balance = @ - (Div(size * price, leverage)
                               + Fee(size, price, a.config.feePercent))]

RECURSIVE SumSizes(_)
SumSizes(xs) == IF xs = <<>> THEN 0 ELSE Head(xs).size + SumSizes(Tail(xs))

RECURSIVE SumValue(_)
SumValue(xs) == IF xs = <<>> THEN 0 ELSE Head(xs).price * Head(xs).size + SumValue(Tail(xs))

CalculateAvgExitPrice(p) ==
    IF Len(p.exits) = 0 THEN 0
    ELSE IF SumSizes(p.exits) > 0 THEN Div(SumValue(p.exits), SumSizes(p.exits)) ELSE 0

CreateTrade(p) ==
    [positionId |-> p.id, symbol |-> p.symbol, direction |-> p.direction,
     avgEntryPrice |-> p.avgEntryPrice, totalSize |-> SumSizes(p.entries),
     avgExitPrice |-> p.avgExitPrice,
     closeReason |-> IF p.closeReason = "" THEN "MANUAL" ELSE p.closeReason,
     pnl |-> p.realizedPnl, fees |-> p.totalFees,
     netPnl |-> p.realizedPnl - p.totalFees,
     tacticsSetId |-> p.tacticsSetId]

\* history of the model: the position as it was when its status first left OPEN
Snapshot(a, i) ==
    IF a.closedAs[i] = <<>> THEN [a EXCEPT !.closedAs[i] = <<a.positions[i]>>] ELSE a

StatusOnClose(reason) == "CLOSED"

ClosePosition(a, i, price, reason) ==
    LET p == a.positions[i] IN
    IF p.status # "OPEN" THEN a
    ELSE LET fee  == Fee(p.totalSize, price, a.config.feePercent)
             pnl  == Pnl(p.direction, p.avgEntryPrice, price, p.totalSize)
             exit == [index |-> Len(p.exits) + 1, price |-> price, size |-> p.totalSize,
                      fee |-> fee, pnl |-> pnl, reason |-> reason, tpIndex |-> 0]
             p1   == [p EXCEPT !.exits = Append(@, exit),
                               !.realizedPnl = @ + pnl - fee,
                               !.totalFees = @ + fee,
                               !.status = StatusOnClose(reason),
                               !.avgExitPrice = price,
                               !.closeReason = reason]
             a1   == [a EXCEPT !.positions[i] = p1,
                               !.balance = @ + p1.margin + p1.realizedPnl,
                               !.realizedPnl = @ + p1.realizedPnl,
                               !.tradeHistory = Append(@, CreateTrade(p1))]
         IN  Emit(RecordEquityPoint(UpdateAccountMetrics(Snapshot(a1, i))),
                  "POSITION_CLOSED")

\* position.totalSize * (tp.closePercent / 100)
CloseSize(p, tp) == Div(p.totalSize * tp.closePercent, 100)

PartialClose(a, i, k, price) ==
    LET p    == a.positions[i]
        tp   == p.takeProfitTargets[k]
        size == CloseSize(p, tp)
        fee  == Fee(size, price, a.config.feePercent)
        pnl  == Pnl(p.direction, p.avgEntryPrice, price, size)
        exit == [index |-> Len(p.exits) + 1, price |-> price, size |-> size,
                 fee |-> fee, pnl |-> pnl, reason |-> "TP", tpIndex |-> tp.index]
        p1   == [p EXCEPT !.exits = Append(@, exit),
                          !.totalSize = @ - size,
                          !.realizedPnl = @ + pnl - fee,
                          !.totalFees = @ + fee,
                          !.takeProfitTargets[k].filled = TRUE]
        a1   == Emit([a EXCEPT !.positions[i] = p1, !.balance = @ + pnl - fee],
                     "POSITION_UPDATED")
    IN  IF p1.totalSize <= 0
        THEN LET p2 == [p1 EXCEPT !.status = "CLOSED",
                                  !.avgExitPrice = CalculateAvgExitPrice(p1),
                                  !.closeReason = "TP"]
                 a2 == [a1 EXCEPT !.positions[i] = p2,
                                  !.tradeHistory = Append(@, CreateTrade(p2))]
             IN  UpdateAccountMetrics(Emit(Snapshot(a2, i), "POSITION_CLOSED"))
        ELSE UpdateAccountMetrics(a1)

\* updateTrailingStop without the comparison of the new level with the current stop
UpdateTrailingStopAnyLevel(p, price) ==
    LET ts == p.trailingState IN
    IF ~ts.present THEN p
    ELSE IF ~ts.activated
    THEN IF ts.activationProfit # 0
            /\ PnlPercentAtLeast(p.unrealizedPnl, p.margin, ts.activationProfit)
         THEN [p EXCEPT !.trailingState.activated = TRUE,
                        !.trailingState.highestPrice = price,
                        !.trailingState.lowestPrice = price]
         ELSE p
    ELSE IF p.direction = "LONG"
    THEN IF ts.highestPrice = 0 \/ price > ts.highestPrice
         THEN [p EXCEPT !.trailingState.highestPrice = price,
                        !.stopLoss = Div(price * (100 - ts.percentValue), 100),
                        !.trailingState.currentStopPrice =
                            Div(price * (100 - ts.percentValue), 100)]
         ELSE p
    ELSE IF ts.lowestPrice = 0 \/ price < ts.lowestPrice
         THEN [p EXCEPT !.trailingState.lowestPrice = price,
                        !.stopLoss = Div(price * (100 + ts.percentValue), 100),
                        !.trailingState.currentStopPrice =
                            Div(price * (100 + ts.percentValue), 100)]
         ELSE p

UpdateTrailingStop(p, price) ==
    LET ts == p.trailingState IN
    IF ~ts.present THEN p
    ELSE IF ~ts.activated
    THEN IF ts.activationProfit # 0
            /\ PnlPercentAtLeast(p.unrealizedPnl, p.margin, ts.activationProfit)
         THEN [p EXCEPT !.trailingState.activated = TRUE,
                        !.trailingState.highestPrice = price,
                        !.trailingState.lowestPrice = price]
         ELSE p
    ELSE IF p.direction = "LONG"
    THEN IF ts.highestPrice = 0 \/ price > ts.highestPrice
         THEN LET newSL == Div(price * (100 - ts.percentValue), 100)
                  p1    == [p EXCEPT !.trailingState.highestPrice = price]
              IN  IF ts.percentValue # 0 /\ (p.stopLoss = 0 \/ newSL > p.stopLoss)
                  THEN [p1 EXCEPT !.stopLoss = newSL,
                                  !.trailingState.currentStopPrice = newSL]
                  ELSE p1
         ELSE p
    ELSE IF ts.lowestPrice = 0 \/ price < ts.lowestPrice
         THEN LET newSL == Div(price * (100 + ts.percentValue), 100)
                  p1    == [p EXCEPT !.trailingState.lowestPrice = price]
              IN  IF ts.percentValue # 0 /\ (p.stopLoss = 0 \/ newSL < p.stopLoss)
                  THEN [p1 EXCEPT !.stopLoss = newSL,
                                  !.trailingState.currentStopPrice = newSL]
                  ELSE p1
         ELSE p

IsSLHit(p, price) ==
    /\ p.stopLoss # 0
    /\ IF p.direction = "LONG" THEN price <= p.stopLoss ELSE price >= p.stopLoss

IsTPHit(p, tp, price) ==
    IF p.direction = "LONG" THEN price >= tp.price ELSE price <= tp.price

IsLiquidated(p, price) ==
    /\ p.liquidationPrice # 0
    /\ IF p.direction = "LONG" THEN price <= p.liquidationPrice
                               ELSE price >= p.liquidationPrice

RECURSIVE TakeProfitLoop(_, _, _, _)
\* for (const tp of position.takeProfitTargets), from target k on
TakeProfitLoop(a, i, k, price) ==
    LET p == a.positions[i] IN
    IF k > Len(p.takeProfitTargets) THEN a
    ELSE IF ~p.takeProfitTargets[k].filled /\ IsTPHit(p, p.takeProfitTargets[k], price)
         THEN TakeProfitLoop(PartialClose(a, i, k, p.takeProfitTargets[k].price),
                             i, k + 1, price)
         ELSE TakeProfitLoop(a, i, k + 1, price)

\* updatePositionPrice with the take-profit loop run ahead of the stop-loss test
UpdatePositionPriceTargetsFirst(a, i, price) ==
    LET p  == a.positions[i]
        p1 == [p EXCEPT !.currentPrice = price,
                        !.unrealizedPnl = Pnl(p.direction, p.avgEntryPrice, price, p.totalSize)]
        a1 == [a EXCEPT !.positions[i] = p1]
        a2 == TakeProfitLoop(a1, i, 1, price)
        a3 == [a2 EXCEPT !.positions[i] = UpdateTrailingStop(@, price)]
    IN  IF IsSLHit(p1, price) THEN ClosePosition(a2, i, p1.stopLoss, "SL")
        ELSE IF IsLiquidated(a3.positions[i], price)
             THEN ClosePosition(a3, i, a3.positions[i].liquidationPrice, "LIQUIDATION")
             ELSE a3

UpdatePositionPrice(a, i, price) ==
    LET p  == a.positions[i]
        p1 == [p EXCEPT !.currentPrice = price,
                        !.unrealizedPnl = Pnl(p.direction, p.avgEntryPrice, price, p.totalSize)]
        a1 == [a EXCEPT !.positions[i] = p1]
    IN  IF IsSLHit(p1, price) THEN ClosePosition(a1, i, p1.stopLoss, "SL")
        ELSE LET a2 == TakeProfitLoop(a1, i, 1, price)
                 a3 == [a2 EXCEPT !.positions[i] = UpdateTrailingStop(@, price)]
             IN  IF IsLiquidated(a3.positions[i], price)
                 THEN ClosePosition(a3, i, a3.positions[i].liquidationPrice, "LIQUIDATION")
                 ELSE a3

RECURSIVE UpdatePositions(_, _, _)
\* for (const position of account.positions), from position i on
UpdatePositions(a, i, prices) ==
    IF i > Len(a.positions) THEN a
    ELSE LET p == a.positions[i] IN
         IF p.status = "OPEN" /\ prices[p.symbol] # 0
         THEN UpdatePositions(UpdatePositionPrice(a, i, prices[p.symbol]), i + 1, prices)
         ELSE UpdatePositions(a, i + 1, prices)

\* the body of updatePrices for one account, without the test of the account's status
UpdateAccountPricesAnyStatus(a, prices) ==
    RecordEquityPoint(UpdateAccountMetrics(UpdatePositions(a, 1, prices)))

\* the body of updatePrices for one account
UpdateAccountPrices(a, prices) ==
    IF a.status # "RUNNING" THEN a
    ELSE RecordEquityPoint(UpdateAccountMetrics(UpdatePositions(a, 1, prices)))

-----------------------------------------------------------------------------
(* Inputs of the operations *)

PriceRecords == [Symbols -> TickPrices]
CandlePrices == {1000}
ClosePrices == {1100}
\* closeAllPositions: no price given (the position's current price is used), or 1100
ClosePriceRecords == {[s \in Symbols |-> 0], [s \in Symbols |-> 1100]}

\* what the strategy's populateEntrySignal returns; <<>> stands for null
NoSignal == <<>>
SuggestedTargets ==
    <<[price |-> 1100, percent |-> 100], [price |-> 1200, percent |-> 50]>>
Signals ==
    {NoSignal,
     <<[type |-> "LONG", hasSymbol |-> FALSE, suggestedStopLoss |-> 0,
        suggestedTakeProfits |-> <<>>]>>,
     <<[type |-> "NO_SIGNAL", hasSymbol |-> TRUE, suggestedStopLoss |-> 0,
        suggestedTakeProfits |-> <<>>]>>} \cup
    {<<[type |-> t, hasSymbol |-> TRUE, suggestedStopLoss |-> 0,
        suggestedTakeProfits |-> <<>>]>> : t \in Directions} \cup
    {<<[type |-> t, hasSymbol |-> TRUE, suggestedStopLoss |-> 950,
        suggestedTakeProfits |-> SuggestedTargets]>> : t \in Directions}

PlainOptions == [leverage |-> 0, stopLoss |-> 0, takeProfit |-> 0, tacticsSet |-> <<>>]

OpenOptions ==
    {o \in [leverage : LeverageOptions, stopLoss : StopLossOptions,
            takeProfit : TakeProfitOptions, tacticsSet : {<<>>}] :
        /\ (o.stopLoss = 0) = (o.takeProfit = 0)
        /\ o.leverage # 0 => o.stopLoss = 0}

OptionsFor(symbol) == IF symbol \in CandleSymbols THEN OpenOptions ELSE {PlainOptions}

-----------------------------------------------------------------------------
(* The engine *)

\* the database before any request: no bot configuration, no demo account, no
\* signal counter row, no signal, position, trade or log
EmptyDb ==
    [botConfigs |-> <<>>, accounts |-> <<>>, signalCounter |-> 0, signals |-> <<>>,
     positions |-> <<>>, trades |-> <<>>, logs |-> <<>>]

\* a strategy id is the sequence of the parts that "_" separates in it
BuiltinStrategies == {<<"rsi">>}

\* the state outside the engine at start: an empty database, no response, no
\* execution in flight, and a StrategyManager just constructed
InitOutside ==
    /\ db = EmptyDb
    /\ responses = <<>>
    /\ invocations = <<>>
    /\ strategies = BuiltinStrategies
    /\ runningStrategies = <<>>

Init ==
    /\ accounts = <<>>
    /\ positionIdCounter = 0
    /\ eventCallbacks = <<>>
    /\ InitOutside

\* bound of the model: a further position on a symbol the account already holds a
\* (closed) position on is opened for the symbols of ReopenSymbols only
WithinBounds(a, symbol) ==
    /\ positionIdCounter < MaxPositions
    /\ symbol \in ReopenSymbols
        \/ \A i \in 1..Len(a.positions) : a.positions[i].symbol # symbol

Known(id) == id \in DOMAIN accounts

\* the accounts at the start of an operation: the event log of the previous one is dropped
Fresh(id) == [accounts[id] EXCEPT !.emitted = <<>>, !.delivered = <<>>]

FreshAll == [x \in DOMAIN accounts |-> Fresh(x)]

NewAccount(id, config) ==
    [id |-> id, config |-> config,
     initialBalance |-> config.initialBalance, balance |-> config.initialBalance,
     equity |-> config.initialBalance, availableMargin |-> config.initialBalance,
     maxEquity |-> config.initialBalance,
     positions |-> <<>>, tradeHistory |-> <<>>, equityCurve |-> <<>>,
     totalPnl |-> 0, realizedPnl |-> 0, unrealizedPnl |-> 0,
     maxDrawdown |-> 0, currentDrawdown |-> 0, status |-> "IDLE",
     metrics |-> CreateEmptyMetrics,
     recordDue |-> FALSE, emitted |-> <<>>, delivered |-> <<>>, closedAs |-> <<>>]

CreateAccount(id, config) ==
    /\ accounts' = [x \in DOMAIN FreshAll \cup {id} |->
                      IF x = id
                      THEN Emit(RecordEquityPoint(NewAccount(id, config)), "BALANCE_UPDATE")
                      ELSE FreshAll[x]]
    /\ eventCallbacks' = EmitEventLoop(eventCallbacks, 1, <<>>, "BALANCE_UPDATE").callbacks
    /\ UNCHANGED <<positionIdCounter, otherVars>>

Start(id) ==
    /\ Known(id)
    /\ accounts' = [FreshAll EXCEPT ![id].status = "RUNNING"]
    /\ UNCHANGED <<positionIdCounter, eventCallbacks, otherVars>>

Stop(id) ==
    /\ Known(id)
    /\ accounts' = [FreshAll EXCEPT ![id].status = "STOPPED"]
    /\ UNCHANGED <<positionIdCounter, eventCallbacks, otherVars>>

Pause(id) ==
    /\ Known(id)
    /\ accounts' = [FreshAll EXCEPT ![id].status = "PAUSED"]
    /\ UNCHANGED <<positionIdCounter, eventCallbacks, otherVars>>

Resume(id) ==
    /\ Known(id)
    /\ accounts' = [FreshAll EXCEPT ![id].status = "RUNNING"]
    /\ UNCHANGED <<positionIdCounter, eventCallbacks, otherVars>>

\* deleteAccount clearing the whole map
DeleteAccountClearsAll(id) ==
    /\ Known(id)
    /\ accounts' = <<>>
    /\ UNCHANGED <<positionIdCounter, eventCallbacks, otherVars>>

DeleteAccount(id) ==
    /\ Known(id)
    /\ accounts' = [x \in DOMAIN accounts \ {id} |-> Fresh(x)]
    /\ UNCHANGED <<positionIdCounter, eventCallbacks, otherVars>>

\* time passes: 60 s or more since the account's last equity point
Advance(id) ==
    /\ Known(id)
    /\ ~accounts[id].recordDue
    /\ Len(accounts[id].equityCurve) < MaxCurve
    /\ accounts' = [accounts EXCEPT ![id].recordDue = TRUE]
    /\ UNCHANGED <<positionIdCounter, eventCallbacks, otherVars>>

UpdatePrices(prices) ==
    /\ accounts' = [x \in DOMAIN accounts |-> UpdateAccountPrices(Fresh(x), prices)]
    /\ UNCHANGED <<positionIdCounter, eventCallbacks, otherVars>>

\* account.positions.push(position), with the history slot of the new position
PushPosition(a, p) ==
    [a EXCEPT !.positions = Append(@, p), !.closedAs = Append(@, <<>>)]

\* openPosition once the account is found and canOpenPosition has passed
OpenPositionBody(a, pid, symbol, direction, size, price, options) ==
    LET leverage == IF options.leverage # 0 THEN options.leverage ELSE a.config.maxLeverage
        p0 == NewPosition(a, pid, symbol, direction, size, price, leverage, options.tacticsSet)
        p1 == IF options.stopLoss # 0 THEN [p0 EXCEPT !.stopLoss = options.stopLoss] ELSE p0
        p2 == IF options.takeProfit # 0
              THEN [p1 EXCEPT !.takeProfitTargets =
                        <<[index |-> 1, price |-> options.takeProfit,
                           closePercent |-> 100, filled |-> FALSE]>>]
              ELSE p1
        a1 == PushPosition(ChargeOpen(a, size, price, leverage), p2)
    IN  Emit(RecordEquityPoint(UpdateAccountMetrics(a1)), "POSITION_OPENED")

OpenPosition(id, symbol, direction, size, price, options) ==
    /\ Known(id)
    /\ CanOpenPosition(accounts[id], symbol)
    /\ WithinBounds(accounts[id], symbol)
    /\ ~CreatePositionThrows(accounts[id], options.tacticsSet)
    /\ positionIdCounter' = positionIdCounter + 1
    /\ UNCHANGED <<eventCallbacks, otherVars>>
    /\ accounts' = [FreshAll EXCEPT ![id] =
            OpenPositionBody(@, positionIdCounter + 1, symbol, direction, size, price, options)]

\* openPosition refused by canOpenPosition: { success: false }
OpenPositionRefused(id, symbol) ==
    /\ Known(id)
    /\ ~CanOpenPosition(accounts[id], symbol)
    /\ accounts' = FreshAll
    /\ UNCHANGED <<positionIdCounter, eventCallbacks, otherVars>>

ExecuteSignal(a, pid, sig, symbol, price) ==
    LET size == CalculatePositionSize(a, price)
        p0 == NewPosition(a, pid, symbol, sig.type, size, price,
                          a.config.maxLeverage, SelectTactics(a))
        p1 == IF sig.suggestedStopLoss # 0
              THEN [p0 EXCEPT !.stopLoss = sig.suggestedStopLoss] ELSE p0
        p2 == IF Len(sig.suggestedTakeProfits) > 0
              THEN [p1 EXCEPT !.takeProfitTargets =
                        [k \in 1..Len(sig.suggestedTakeProfits) |->
                            [index |-> k, price |-> sig.suggestedTakeProfits[k].price,
                             closePercent |-> sig.suggestedTakeProfits[k].percent,
                             filled |-> FALSE]]]
              ELSE p1
    IN  Emit(PushPosition(ChargeOpen(a, size, price, a.config.maxLeverage), p2),
             "POSITION_OPENED")

\* the signal is generated and canOpenPosition lets executeSignal create a position
SignalOpens(a, signal, symbol) ==
    /\ signal # NoSignal
    /\ signal[1].hasSymbol
    /\ CanOpenPosition(a, symbol)
    /\ signal[1].type \in Directions

RECURSIVE ExitLoop(_, _, _, _, _)
\* the exit check of processCandles, from position i on; exits: the positions for
\* which populateExitSignal returns EXIT_LONG or EXIT_SHORT
ExitLoop(a, i, symbol, currentPrice, exits) ==
    IF i > Len(a.positions) THEN a
    ELSE IF a.positions[i].status = "OPEN" /\ a.positions[i].symbol = symbol /\ i \in exits
         THEN ExitLoop(ClosePosition(a, i, currentPrice, "SIGNAL"),
                       i + 1, symbol, currentPrice, exits)
         ELSE ExitLoop(a, i + 1, symbol, currentPrice, exits)

\* the try block of processCandles up to the exit check
EntryStep(a, pid, symbol, currentPrice, signal) ==
    LET a1 == IF signal # NoSignal /\ signal[1].hasSymbol
              THEN Emit(a, "SIGNAL_GENERATED") ELSE a
    IN  IF SignalOpens(a, signal, symbol)
        THEN ExecuteSignal(a1, pid, signal[1], symbol, currentPrice) ELSE a1

\* the positions the exit check of processCandles asks the strategy about
ExitCandidates(a, symbol) ==
    {i \in 1..Len(a.positions) :
        a.positions[i].status = "OPEN" /\ a.positions[i].symbol = symbol}

\* processCandles when the account's strategy is not registered
ProcessCandlesNoStrategy(id) ==
    /\ Known(id)
    /\ accounts[id].status = "RUNNING"
    /\ accounts[id].config.autoTrading
    /\ accounts' = [FreshAll EXCEPT ![id] = Emit(@, "ERROR")]
    /\ UNCHANGED <<positionIdCounter, eventCallbacks, otherVars>>

\* processCandles when populateIndicators or populateEntrySignal throws
ProcessCandlesEntryThrows(id) ==
    /\ Known(id)
    /\ accounts[id].status = "RUNNING"
    /\ accounts[id].config.autoTrading
    /\ accounts' = [FreshAll EXCEPT ![id] = Emit(@, "ERROR")]
    /\ UNCHANGED <<positionIdCounter, eventCallbacks, otherVars>>

\* processCandles; exitThrows: populateExitSignal throws on its first call
ProcessCandles(id, symbol, currentPrice, signal, exitThrows) ==
    /\ Known(id)
    /\ accounts[id].status = "RUNNING"
    /\ accounts[id].config.autoTrading
    /\ ~(SignalOpens(accounts[id], signal, symbol)
          /\ CreatePositionThrows(accounts[id], SelectTactics(accounts[id])))
    /\ LET opens == SignalOpens(accounts[id], signal, symbol)
           a2    == EntryStep(Fresh(id), positionIdCounter + 1, symbol, currentPrice, signal)
       IN  /\ opens => WithinBounds(accounts[id], symbol)
           /\ UNCHANGED <<eventCallbacks, otherVars>>
           /\ positionIdCounter' = IF opens THEN positionIdCounter + 1
                                            ELSE positionIdCounter
           /\ IF exitThrows
              THEN /\ ExitCandidates(a2, symbol) # {}
                   /\ accounts' = [FreshAll EXCEPT ![id] = Emit(a2, "ERROR")]
              ELSE \E exits \in SUBSET ExitCandidates(a2, symbol) :
                      accounts' = [FreshAll EXCEPT ![id] =
                                      ExitLoop(a2, 1, symbol, currentPrice, exits)]

\* the public closePosition, called on a position of the account
ClosePositionCall(id, i, price, reason) ==
    /\ Known(id)
    /\ i \in 1..Len(accounts[id].positions)
    /\ accounts' = [FreshAll EXCEPT ![id] = ClosePosition(@, i, price, reason)]
    /\ UNCHANGED <<positionIdCounter, eventCallbacks, otherVars>>

RECURSIVE CloseAllLoop(_, _, _)
CloseAllLoop(a, i, prices) ==
    IF i > Len(a.positions) THEN a
    ELSE LET p == a.positions[i] IN
         IF p.status = "OPEN"
         THEN CloseAllLoop(ClosePosition(a, i,
                               IF prices[p.symbol] # 0 THEN prices[p.symbol]
                                                       ELSE p.currentPrice, "MANUAL"),
                           i + 1, prices)
         ELSE CloseAllLoop(a, i + 1, prices)

CloseAllPositions(id, prices) ==
    /\ Known(id)
    /\ accounts' = [FreshAll EXCEPT ![id] = CloseAllLoop(@, 1, prices)]
    /\ UNCHANGED <<positionIdCounter, eventCallbacks, otherVars>>

\* the operations of the engine
Next ==
    \/ \E id \in AccountIds, config \in Configs : CreateAccount(id, config)
    \/ \E id \in AccountIds : Start(id)
    \/ \E id \in AccountIds : Stop(id)
    \/ \E id \in AccountIds : Pause(id)
    \/ \E id \in AccountIds : Resume(id)
    \/ \E id \in AccountIds : DeleteAccount(id)
    \/ \E prices \in PriceRecords : UpdatePrices(prices)
    \/ \E id \in AccountIds, symbol \in Symbols, direction \in Directions,
          size \in ManualSizes, price \in EntryPrices :
            \E options \in OptionsFor(symbol) :
                OpenPosition(id, symbol, direction, size, price, options)
    \/ \E id \in AccountIds, symbol \in Symbols : OpenPositionRefused(id, symbol)
    \/ \E id \in AccountIds : ProcessCandlesNoStrategy(id)
    \/ \E id \in AccountIds : ProcessCandlesEntryThrows(id)
    \/ \E id \in AccountIds, symbol \in CandleSymbols, price \in CandlePrices,
          signal \in Signals, exitThrows \in BOOLEAN :
            ProcessCandles(id, symbol, price, signal, exitThrows)
    \/ \E id \in AccountIds, i \in 1..MaxPositions, price \in ClosePrices,
          reason \in ManualReasons : ClosePositionCall(id, i, price, reason)
    \/ \E id \in AccountIds, prices \in ClosePriceRecords : CloseAllPositions(id, prices)

Spec == Init /\ [][Next]_vars

Subscribe(callback) ==
    /\ Len(eventCallbacks) < MaxCallbacks
    /\ eventCallbacks' = Append(eventCallbacks, callback)
    /\ accounts' = FreshAll
    /\ UNCHANGED <<positionIdCounter, otherVars>>

\* indexOf(callback), 0 when it is not subscribed
IndexOf(callback) ==
    IF \E k \in 1..Len(eventCallbacks) : eventCallbacks[k] = callback
    THEN CHOOSE k \in 1..Len(eventCallbacks) :
            /\ eventCallbacks[k] = callback
            /\ \A j \in 1..(k - 1) : eventCallbacks[j] # callback
    ELSE 0

Unsubscribe(callback) ==
    /\ IndexOf(callback) > 0
    /\ eventCallbacks' = [k \in 1..(Len(eventCallbacks) - 1) |->
                            IF k < IndexOf(callback) THEN eventCallbacks[k]
                                                     ELSE eventCallbacks[k + 1]]
    /\ accounts' = FreshAll
    /\ UNCHANGED <<positionIdCounter, otherVars>>

\* the engine with subscribers
NextEvents ==
    \/ Next
    \/ \E callback \in Callbacks : Subscribe(callback)
    \/ \E callback \in Callbacks : Unsubscribe(callback)

SpecEvents == Init /\ [][NextEvents]_vars

\* the engine with the clock: equity points beyond the rate limit
NextClock == Next \/ \E id \in AccountIds : Advance(id)

SpecClock == Init /\ [][NextClock]_vars

-----------------------------------------------------------------------------
(* Properties *)

PositionsOf(a) == 1..Len(a.positions)

OpenPositionsOf(a) == {i \in PositionsOf(a) : a.positions[i].status = "OPEN"}

RECURSIVE SumNet(_)
\* sum over the exits of (pnl - fee)
SumNet(xs) == IF xs = <<>> THEN 0 ELSE Head(xs).pnl - Head(xs).fee + SumNet(Tail(xs))

TradesOf(a, pid) == {k \in 1..Len(a.tradeHistory) : a.tradeHistory[k].positionId = pid}

\* the position is processed by the tick: its account is running, it is open and
\* the tick carries a price for its symbol
Ticked(a, i, prices) ==
    /\ a.status = "RUNNING"
    /\ a.positions[i].status = "OPEN"
    /\ prices[a.positions[i].symbol] # 0

\* C1: for every position, in every state, the sum of its exit-fill sizes plus its
\* remaining totalSize equals the sum of its entry-fill sizes.
C1_SizesConserved ==
    \A id \in DOMAIN accounts : \A i \in PositionsOf(accounts[id]) :
        LET p == accounts[id].positions[i]
        IN  SumSizes(p.exits) + p.totalSize = SumSizes(p.entries)

\* C2: a position whose take-profit fills brought its size to zero is closed with
\* reason TP, has one trade, and its margin is back in the balance: for the only
\* position of an account, balance = initial balance - entry fee + sum of (pnl - fee).
C2_TakeProfitCloseReturnsMargin ==
    \A id \in DOMAIN accounts :
        LET a == accounts[id] IN
        (/\ Len(a.positions) = 1
         /\ a.positions[1].status # "OPEN"
         /\ a.positions[1].closeReason = "TP")
        => /\ a.positions[1].status = "CLOSED"
           /\ Cardinality(TradesOf(a, a.positions[1].id)) = 1
           /\ \A k \in TradesOf(a, a.positions[1].id) : a.tradeHistory[k].closeReason = "TP"
           /\ a.balance = a.initialBalance - a.positions[1].entries[1].fee
                          + SumNet(a.positions[1].exits)

\* the account as an updatePrices call with these prices leaves it
AfterTick(id, prices) == UpdateAccountPrices(Fresh(id), prices)

\* C3: after every updatePrices call, in whatever state it is made, every account has
\* equity = balance + the sum of unrealizedPnl over its OPEN positions.
C3_EquityAfterTick ==
    \A prices \in PriceRecords : \A id \in DOMAIN accounts :
        AfterTick(id, prices).equity
            = AfterTick(id, prices).balance
              + SumUnrealizedOpen(AfterTick(id, prices).positions)

\* C4: a position is opened only when its margin plus entry fee does not exceed the
\* account's balance (a request beyond the balance is rejected).
C4_OpenWithinBalance ==
    [][\A id \in DOMAIN accounts \cap DOMAIN accounts' :
          Len(accounts'[id].positions) = Len(accounts[id].positions) + 1
          => LET p == accounts'[id].positions[Len(accounts'[id].positions)]
             IN  p.margin + p.entries[1].fee <= accounts[id].balance]_vars

\* C5: in every state each account has at most config.maxOpenPositions OPEN positions
\* and at most one OPEN position per symbol.
C5_OpenPositionLimits ==
    \A id \in DOMAIN accounts :
        LET a == accounts[id] IN
        /\ Cardinality(OpenPositionsOf(a)) <= a.config.maxOpenPositions
        /\ \A i, j \in OpenPositionsOf(a) :
              a.positions[i].symbol = a.positions[j].symbol => i = j

\* C5 witness: an account holds as many OPEN positions as its configuration allows,
\* one of them opened after an earlier position on the same symbol was closed.
C5_Witness ==
    \E id \in DOMAIN accounts :
        LET a == accounts[id] IN
        /\ Cardinality(OpenPositionsOf(a)) = a.config.maxOpenPositions
        /\ \E i, j \in PositionsOf(a) :
              /\ i < j
              /\ a.positions[i].symbol = a.positions[j].symbol
              /\ a.positions[i].status # "OPEN"
              /\ a.positions[j].status = "OPEN"

\* C6: the trade history never holds two trades of the same position.
C6_OneTradePerPosition ==
    \A id \in DOMAIN accounts :
        \A k, m \in 1..Len(accounts[id].tradeHistory) :
            accounts[id].tradeHistory[k].positionId = accounts[id].tradeHistory[m].positionId
            => k = m

\* C7: a tick at or beyond the liquidation price of a position it processes leaves the
\* position closed at the liquidation price with close reason LIQUIDATION.
C7_LiquidationOverrides ==
    \A prices \in PriceRecords :
        \A id \in DOMAIN accounts : \A i \in PositionsOf(accounts[id]) :
            LET p == accounts[id].positions[i]
                q == AfterTick(id, prices).positions[i]
            IN  (Ticked(accounts[id], i, prices) /\ IsLiquidated(p, prices[p.symbol]))
                => /\ q.status # "OPEN"
                   /\ q.closeReason = "LIQUIDATION"
                   /\ q.exits[Len(q.exits)].price = p.liquidationPrice

\* C8: a tick that hits the stop-loss of a position it processes closes the whole
\* remaining size with reason SL at the stop price, and fills no take-profit target.
C8_StopLossPrecedence ==
    \A prices \in PriceRecords :
        \A id \in DOMAIN accounts : \A i \in PositionsOf(accounts[id]) :
            LET p == accounts[id].positions[i]
                q == AfterTick(id, prices).positions[i]
            IN  (Ticked(accounts[id], i, prices) /\ IsSLHit(p, prices[p.symbol]))
                => /\ q.status # "OPEN"
                   /\ q.closeReason = "SL"
                   /\ Len(q.exits) = Len(p.exits) + 1
                   /\ q.exits[Len(q.exits)].price = p.stopLoss
                   /\ q.exits[Len(q.exits)].size = p.totalSize
                   /\ q.exits[Len(q.exits)].reason = "SL"
                   /\ q.takeProfitTargets = p.takeProfitTargets

\* C8 witness: a position closed by its stop-loss at the stop price on a tick whose
\* price differs from the stop price and also reaches an unfilled take-profit target.
C8_Witness ==
    \E id \in DOMAIN accounts : \E i \in PositionsOf(accounts[id]) :
        LET p == accounts[id].positions[i] IN
        /\ p.status # "OPEN"
        /\ p.closeReason = "SL"
        /\ p.exits[Len(p.exits)].price = p.stopLoss
        /\ p.currentPrice # p.stopLoss
        /\ \E k \in 1..Len(p.takeProfitTargets) :
              /\ ~p.takeProfitTargets[k].filled
              /\ IsTPHit(p, p.takeProfitTargets[k], p.currentPrice)

\* C9: a position whose status is CLOSED or LIQUIDATED is as it was when it was closed.
C9_ClosedPositionsFrozen ==
    \A id \in DOMAIN accounts : \A i \in PositionsOf(accounts[id]) :
        accounts[id].positions[i].status # "OPEN"
        => accounts[id].closedAs[i] = <<accounts[id].positions[i]>>

\* C10: a position closed for reason LIQUIDATION has status LIQUIDATED, a position
\* closed for another reason has status CLOSED.
C10_StatusFollowsReason ==
    \A id \in DOMAIN accounts : \A i \in PositionsOf(accounts[id]) :
        LET p == accounts[id].positions[i] IN
        p.status # "OPEN"
        => p.status = (IF p.closeReason = "LIQUIDATION" THEN "LIQUIDATED" ELSE "CLOSED")

-----------------------------------------------------------------------------
(* Trailing stops over longer runs of ticks *)

\* stop-loss 5 %, one far target, trailing stop of 25 % active from +50 %
TacticsWideTrailing ==
    [id |-> "wide", slPrice |-> 0, slPercent |-> 5,
     hasTargets |-> TRUE,
     targets |-> <<[price |-> 0, profitPercent |-> 50, closePercent |-> 50]>>,
     tpPrice |-> 0, tpPercent |-> 0,
     trailing |-> [present |-> TRUE, activationProfit |-> 50, percentValue |-> 25]]

TrailingConfig == [BaseConfig EXCEPT !.tacticsSets = <<TacticsWideTrailing>>]

TrailingTickPrices == {700, 800, 900, 1100, 1200, 1300}

\* ticks that carry a price for BTCUSDT only
TrailingPriceRecords ==
    {[s \in Symbols |-> IF s \in CandleSymbols THEN x ELSE 0] : x \in TrailingTickPrices}

NextTrailing ==
    \/ \E id \in AccountIds : CreateAccount(id, TrailingConfig)
    \/ \E id \in AccountIds : Start(id)
    \/ \E prices \in TrailingPriceRecords : UpdatePrices(prices)
    \/ \E id \in AccountIds, symbol \in CandleSymbols, direction \in Directions,
          size \in ManualSizes, price \in EntryPrices :
            OpenPosition(id, symbol, direction, size, price, PlainOptions)
    \/ \E id \in AccountIds, i \in 1..MaxPositions, price \in ClosePrices,
          reason \in ManualReasons : ClosePositionCall(id, i, price, reason)

SpecTrailing == Init /\ [][NextTrailing]_vars

\* C11: once the trailing stop of a position is activated and the position has a
\* stop-loss level, no step moves the level against the position: it never decreases
\* for a LONG position and never increases for a SHORT position.
C11_TrailingStopMonotone ==
    [][\A id \in DOMAIN accounts \cap DOMAIN accounts' :
          \A i \in PositionsOf(accounts[id]) \cap PositionsOf(accounts'[id]) :
              LET p == accounts[id].positions[i]
                  q == accounts'[id].positions[i]
              IN  (p.id = q.id /\ p.trailingState.activated /\ p.stopLoss # 0)
                  => IF p.direction = "LONG" THEN q.stopLoss >= p.stopLoss
                                             ELSE q.stopLoss <= p.stopLoss /\ q.stopLoss # 0]_vars

\* C11 witness: an open position whose activated trailing stop has moved its stop-loss
\* beyond the level of the tactics set, up for a LONG position, down for a SHORT one.
C11_Witness ==
    \E id \in DOMAIN accounts : \E i \in PositionsOf(accounts[id]) :
        LET p == accounts[id].positions[i] IN
        /\ p.status = "OPEN"
        /\ p.trailingState.activated
        /\ p.trailingState.currentStopPrice # 0
        /\ p.stopLoss = p.trailingState.currentStopPrice
        /\ IF p.direction = "LONG"
           THEN p.stopLoss > TacticsStopLoss(TacticsWideTrailing, "LONG", p.avgEntryPrice)
           ELSE p.stopLoss < TacticsStopLoss(TacticsWideTrailing, "SHORT", p.avgEntryPrice)

\* C12: every take-profit fill closes closePercent percent of the position's original
\* (entry) size, so a position whose targets add up to 100 percent and are all filled
\* is closed.
C12_FillsShareOfOriginalSize ==
    \A id \in DOMAIN accounts : \A i \in PositionsOf(accounts[id]) :
        LET p == accounts[id].positions[i] IN
        /\ \A e \in 1..Len(p.exits) :
              p.exits[e].reason = "TP"
              => p.exits[e].size * 100
                 = SumSizes(p.entries) * p.takeProfitTargets[p.exits[e].tpIndex].closePercent
        /\ (/\ Len(p.takeProfitTargets) = 2
            /\ \A k \in 1..2 : p.takeProfitTargets[k].filled
                               /\ p.takeProfitTargets[k].closePercent = 50)
           => p.status # "OPEN"

-----------------------------------------------------------------------------
(* Attempts to open a position that fail *)

\* a TacticsSet object without the stopLoss and takeProfit objects
BrokenTactics == [id |-> "broken"]

BrokenConfig == [BaseConfig EXCEPT !.tacticsSets = <<BrokenTactics>>]

BrokenOptions == [PlainOptions EXCEPT !.tacticsSet = <<BrokenTactics>>]

\* openPosition when createPosition throws: the balance is charged and the position
\* id is taken (lines 735 and 740) before the TypeError of line 779 leaves the call
OpenPositionThrows(id, symbol, direction, size, price, options) ==
    /\ Known(id)
    /\ CanOpenPosition(accounts[id], symbol)
    /\ WithinBounds(accounts[id], symbol)
    /\ CreatePositionThrows(accounts[id], options.tacticsSet)
    /\ positionIdCounter' = positionIdCounter + 1
    /\ UNCHANGED <<eventCallbacks, otherVars>>
    /\ accounts' = [FreshAll EXCEPT ![id] =
            ChargeOpen(@, size, price,
                       IF options.leverage # 0 THEN options.leverage
                                               ELSE @.config.maxLeverage)]

\* processCandles when createPosition throws inside executeSignal: the catch block
\* emits ERROR after the balance was charged
ProcessCandlesCreateThrows(id, symbol, currentPrice, signal) ==
    /\ Known(id)
    /\ accounts[id].status = "RUNNING"
    /\ accounts[id].config.autoTrading
    /\ SignalOpens(accounts[id], signal, symbol)
    /\ WithinBounds(accounts[id], symbol)
    /\ CreatePositionThrows(accounts[id], SelectTactics(accounts[id]))
    /\ positionIdCounter' = positionIdCounter + 1
    /\ UNCHANGED <<eventCallbacks, otherVars>>
    /\ accounts' = [FreshAll EXCEPT ![id] =
            Emit(ChargeOpen(Emit(@, "SIGNAL_GENERATED"),
                            CalculatePositionSize(@, currentPrice), currentPrice,
                            @.config.maxLeverage),
                 "ERROR")]

FailingOptions == {PlainOptions, BrokenOptions}

NextOpen ==
    \/ \E id \in AccountIds, config \in {BaseConfig, BrokenConfig} : CreateAccount(id, config)
    \/ \E id \in AccountIds : Start(id)
    \/ \E callback \in Callbacks : Subscribe(callback)
    \/ \E id \in AccountIds, symbol \in Symbols, direction \in Directions,
          size \in ManualSizes, price \in EntryPrices :
            OpenPosition(id, symbol, direction, size, price, PlainOptions)
    \/ \E id \in AccountIds, symbol \in Symbols : OpenPositionRefused(id, symbol)
    \/ \E id \in AccountIds, symbol \in Symbols, direction \in Directions,
          size \in ManualSizes, price \in EntryPrices, options \in FailingOptions :
            OpenPositionThrows(id, symbol, direction, size, price, options)
    \/ \E id \in AccountIds, symbol \in CandleSymbols, price \in CandlePrices,
          signal \in Signals : ProcessCandles(id, symbol, price, signal, FALSE)
    \/ \E id \in AccountIds, symbol \in CandleSymbols, price \in CandlePrices,
          signal \in Signals : ProcessCandlesCreateThrows(id, symbol, price, signal)
    \/ \E id \in AccountIds, i \in 1..MaxPositions, price \in ClosePrices,
          reason \in ManualReasons : ClosePositionCall(id, i, price, reason)

SpecOpen == Init /\ [][NextOpen]_vars

\* the account is as it was, and its subscribers saw no POSITION_OPENED
SameAfterFailedOpen(id) ==
    /\ accounts'[id].balance = accounts[id].balance
    /\ accounts'[id].positions = accounts[id].positions
    /\ accounts'[id].tradeHistory = accounts[id].tradeHistory
    /\ accounts'[id].equity = accounts[id].equity
    /\ \A k \in 1..Len(accounts'[id].emitted) : accounts'[id].emitted[k] # "POSITION_OPENED"

\* C13: an attempt to open a position that produces no position (refused by
\* canOpenPosition, or aborted by an error of createPosition) leaves the account's
\* balance, positions, trade history and equity unchanged and emits no POSITION_OPENED.
C13_FailedOpenChangesNothing ==
    [][\A id \in AccountIds, symbol \in Symbols :
          /\ OpenPositionRefused(id, symbol) => SameAfterFailedOpen(id)
          /\ \A direction \in Directions, size \in ManualSizes, price \in EntryPrices,
                options \in FailingOptions :
                 OpenPositionThrows(id, symbol, direction, size, price, options)
                 => SameAfterFailedOpen(id)
          /\ \A price \in CandlePrices, signal \in Signals :
                 ProcessCandlesCreateThrows(id, symbol, price, signal)
                 => SameAfterFailedOpen(id)]_vars

-----------------------------------------------------------------------------
(* Stopped accounts *)

\* the account as a processCandles call leaves it when no error is thrown; exits: the
\* positions for which populateExitSignal returns an exit signal
AfterCandles(id, symbol, currentPrice, signal, exits) ==
    IF accounts[id].status # "RUNNING" \/ ~accounts[id].config.autoTrading
    THEN Fresh(id)
    ELSE ExitLoop(EntryStep(Fresh(id), positionIdCounter + 1, symbol, currentPrice, signal),
                  1, symbol, currentPrice, exits)

SameHoldings(a, b) ==
    /\ a.positions = b.positions
    /\ a.balance = b.balance
    /\ a.tradeHistory = b.tradeHistory

\* C14: while an account is STOPPED, every updatePrices call and every processCandles
\* call leaves its positions, balance and trade history unchanged, and stop() itself
\* changes no position.
C14_StoppedAccountUntouched ==
    /\ [](\A id \in DOMAIN accounts :
            accounts[id].status = "STOPPED"
            => /\ \A prices \in PriceRecords :
                     SameHoldings(AfterTick(id, prices), accounts[id])
               /\ \A symbol \in CandleSymbols, price \in CandlePrices, signal \in Signals :
                     SameHoldings(AfterCandles(id, symbol, price, signal,
                                               PositionsOf(accounts[id])),
                                  accounts[id]))
    /\ [][\A id \in AccountIds :
             Stop(id) => accounts'[id].positions = accounts[id].positions]_vars

\* C14 witness: a stopped account holds an OPEN position whose stop-loss or
\* liquidation price a tick of the model reaches.
C14_Witness ==
    \E id \in DOMAIN accounts :
        /\ accounts[id].status = "STOPPED"
        /\ \E i \in OpenPositionsOf(accounts[id]) : \E x \in TickPrices \ {0} :
              \/ IsSLHit(accounts[id].positions[i], x)
              \/ IsLiquidated(accounts[id].positions[i], x)

-----------------------------------------------------------------------------
(* Subscribers that throw *)

NextSubscribers ==
    \/ \E id \in AccountIds : CreateAccount(id, BaseConfig)
    \/ \E id \in AccountIds : Start(id)
    \/ \E callback \in Callbacks : Subscribe(callback)
    \/ \E callback \in Callbacks : Unsubscribe(callback)
    \/ \E prices \in PriceRecords : UpdatePrices(prices)
    \/ \E id \in AccountIds, symbol \in CandleSymbols, direction \in Directions,
          size \in ManualSizes, price \in EntryPrices :
            OpenPosition(id, symbol, direction, size, price, PlainOptions)
    \/ \E id \in AccountIds, i \in 1..MaxPositions, price \in ClosePrices,
          reason \in ManualReasons : ClosePositionCall(id, i, price, reason)

SpecSubscribers == Init /\ [][NextSubscribers]_vars

\* C15: a callback that throws aborts nothing: every event an operation emitted was
\* handed to every subscribed callback, in the order of subscription, the callbacks
\* after a throwing one included.
C15_ThrowingSubscriberIsolated ==
    \A id \in DOMAIN accounts :
        LET a == accounts[id]
            n == Len(eventCallbacks)
        IN  /\ Len(a.delivered) = Len(a.emitted) * n
            /\ \A j \in 1..Len(a.emitted) : \A k \in 1..n :
                  a.delivered[(j - 1) * n + k]
                      = [callback |-> eventCallbacks[k], type |-> a.emitted[j]]

\* C15 witness: a callback subscribed after a throwing one received the
\* POSITION_CLOSED event of an operation that closed a position and recorded its trade.
C15_Witness ==
    \E id \in DOMAIN accounts :
        /\ Len(eventCallbacks) = 2
        /\ eventCallbacks[1] \in ThrowingCallbacks
        /\ eventCallbacks[2] \notin ThrowingCallbacks
        /\ \E j \in 1..Len(accounts[id].delivered) :
              accounts[id].delivered[j] =
                  [callback |-> eventCallbacks[2], type |-> "POSITION_CLOSED"]
        /\ accounts[id].tradeHistory # <<>>

-----------------------------------------------------------------------------
(* Account configurations with missing fields *)

\* a configuration without tactics sets
NoTacticsConfig == [BaseConfig EXCEPT !.tacticsSets = <<>>]

AnyConfigs == {BaseConfig, NoTacticsConfig, BrokenConfig}

NextConfig ==
    \/ \E id \in AccountIds, config \in AnyConfigs : CreateAccount(id, config)
    \/ \E id \in AccountIds : Start(id)
    \/ \E id \in AccountIds : DeleteAccount(id)
    \/ \E prices \in PriceRecords : UpdatePrices(prices)
    \/ \E id \in AccountIds, symbol \in Symbols, direction \in Directions,
          size \in ManualSizes, price \in EntryPrices :
            OpenPosition(id, symbol, direction, size, price, PlainOptions)
    \/ \E id \in AccountIds, symbol \in Symbols, direction \in Directions,
          size \in ManualSizes, price \in EntryPrices :
            OpenPositionThrows(id, symbol, direction, size, price, PlainOptions)

SpecConfig == Init /\ [][NextConfig]_vars

\* C16: no account is ever registered from a configuration in which a required
\* account or tactics field is missing or invalid.
C16_InvalidConfigRejected ==
    \A id \in DOMAIN accounts :
        LET c == accounts[id].config IN
        /\ c.initialBalance > 0
        /\ c.maxLeverage > 0
        /\ c.feePercent >= 0
        /\ Len(c.tacticsSets) > 0
        /\ \A k \in 1..Len(c.tacticsSets) :
              {"slPrice", "hasTargets"} \subseteq DOMAIN c.tacticsSets[k]

-----------------------------------------------------------------------------
(* Resolution of stop-loss and take-profit levels *)

\* stop-loss and take-profit given both as a price and as a percent
TacticsPriceAndPercent ==
    [id |-> "both", slPrice |-> 940, slPercent |-> 5,
     hasTargets |-> FALSE, targets |-> <<>>,
     tpPrice |-> 1150, tpPercent |-> 10, trailing |-> NoTrailing]

\* stop-loss and take-profit given as a percent only
TacticsPercentOnly ==
    [id |-> "percent", slPrice |-> 0, slPercent |-> 5,
     hasTargets |-> FALSE, targets |-> <<>>,
     tpPrice |-> 0, tpPercent |-> 10, trailing |-> NoTrailing]

\* no stop-loss; a target with a price and a percent, and a target with neither
TacticsBareTarget ==
    [id |-> "bare", slPrice |-> 0, slPercent |-> 0,
     hasTargets |-> TRUE,
     targets |-> <<[price |-> 1100, profitPercent |-> 20, closePercent |-> 50],
                   [price |-> 0, profitPercent |-> 0, closePercent |-> 50]>>,
     tpPrice |-> 0, tpPercent |-> 0, trailing |-> NoTrailing]

LevelConfigs ==
    {[BaseConfig EXCEPT !.tacticsSets = <<t>>] :
        t \in {TacticsSingleTP, TacticsPriceAndPercent, TacticsPercentOnly, TacticsBareTarget}}

NextLevels ==
    \/ \E id \in AccountIds, config \in LevelConfigs : CreateAccount(id, config)
    \/ \E id \in AccountIds : Start(id)
    \/ \E prices \in PriceRecords : UpdatePrices(prices)
    \/ \E id \in AccountIds, symbol \in CandleSymbols, direction \in Directions,
          size \in ManualSizes, price \in EntryPrices, options \in OpenOptions :
            OpenPosition(id, symbol, direction, size, price, options)

SpecLevels == Init /\ [][NextLevels]_vars

\* C17: a position opened by openPosition has its stop-loss and its take-profit levels
\* resolved as: the override of the request, else the absolute price of the tactics
\* set, else the percent of the entry price, else no level; a target with neither a
\* price nor a percent gives no level.
C17_LevelPrecedence ==
    [][\A id \in AccountIds, symbol \in CandleSymbols, direction \in Directions,
          size \in ManualSizes, price \in EntryPrices, options \in OpenOptions :
          OpenPosition(id, symbol, direction, size, price, options)
          => LET q == accounts'[id].positions[Len(accounts'[id].positions)]
                 t == ChooseTactics(accounts[id], options.tacticsSet)[1]
                 up(pct)   == Div(price * (100 + pct), 100)
                 down(pct) == Div(price * (100 - pct), 100)
                 away(pct)   == IF direction = "LONG" THEN down(pct) ELSE up(pct)
                 toward(pct) == IF direction = "LONG" THEN up(pct) ELSE down(pct)
                 given == SelectSeq(t.targets,
                                    LAMBDA x : x.price # 0 \/ x.profitPercent # 0)
                 levels == IF options.takeProfit # 0 THEN <<options.takeProfit>>
                           ELSE IF t.hasTargets
                           THEN [k \in 1..Len(given) |->
                                    IF given[k].price # 0 THEN given[k].price
                                    ELSE toward(given[k].profitPercent)]
                           ELSE IF t.tpPrice # 0 THEN <<t.tpPrice>>
                           ELSE IF t.tpPercent # 0 THEN <<toward(t.tpPercent)>>
                           ELSE <<>>
             IN  /\ q.stopLoss = IF options.stopLoss # 0 THEN options.stopLoss
                                 ELSE IF t.slPrice # 0 THEN t.slPrice
                                 ELSE IF t.slPercent # 0 THEN away(t.slPercent)
                                 ELSE 0
                 /\ [k \in 1..Len(q.takeProfitTargets) |-> q.takeProfitTargets[k].price]
                    = levels]_vars

-----------------------------------------------------------------------------
(* Two accounts *)

TwoAccountIds == {"paper-1", "paper-2"}

PlainSignals ==
    {<<[type |-> t, hasSymbol |-> TRUE, suggestedStopLoss |-> 0,
        suggestedTakeProfits |-> <<>>]>> : t \in Directions}

NextTwoAccounts ==
    \/ \E id \in TwoAccountIds : CreateAccount(id, BaseConfig)
    \/ \E id \in TwoAccountIds : Start(id)
    \/ \E id \in TwoAccountIds : Stop(id)
    \/ \E id \in TwoAccountIds : Pause(id)
    \/ \E id \in TwoAccountIds : Resume(id)
    \/ \E id \in TwoAccountIds : DeleteAccount(id)
    \/ \E prices \in TrailingPriceRecords : UpdatePrices(prices)
    \/ \E id \in TwoAccountIds, symbol \in CandleSymbols, direction \in Directions,
          size \in ManualSizes, price \in EntryPrices :
            OpenPosition(id, symbol, direction, size, price, PlainOptions)
    \/ \E id \in TwoAccountIds, symbol \in CandleSymbols, price \in CandlePrices,
          signal \in PlainSignals : ProcessCandles(id, symbol, price, signal, FALSE)
    \/ \E id \in TwoAccountIds, i \in 1..MaxPositions, price \in ClosePrices,
          reason \in ManualReasons : ClosePositionCall(id, i, price, reason)

SpecTwoAccounts == Init /\ [][NextTwoAccounts]_vars

\* an operation of the engine applied to account id
OperationOn(id) ==
    \/ Start(id) \/ Stop(id) \/ Pause(id) \/ Resume(id) \/ DeleteAccount(id)
    \/ \E symbol \in CandleSymbols, direction \in Directions,
          size \in ManualSizes, price \in EntryPrices :
            OpenPosition(id, symbol, direction, size, price, PlainOptions)
    \/ \E symbol \in CandleSymbols, price \in CandlePrices, signal \in PlainSignals :
            ProcessCandles(id, symbol, price, signal, FALSE)
    \/ \E i \in 1..MaxPositions, price \in ClosePrices, reason \in ManualReasons :
            ClosePositionCall(id, i, price, reason)

\* account id is registered before and after the step, with the same balance, equity,
\* positions, trade history, equity curve and status
Untouched(id) ==
    /\ id \in DOMAIN accounts'
    /\ accounts'[id].balance = accounts[id].balance
    /\ accounts'[id].equity = accounts[id].equity
    /\ accounts'[id].positions = accounts[id].positions
    /\ accounts'[id].tradeHistory = accounts[id].tradeHistory
    /\ accounts'[id].equityCurve = accounts[id].equityCurve
    /\ accounts'[id].status = accounts[id].status

\* C18: an operation applied to one account leaves every other account unchanged, and
\* a price tick changes no account that it does not process (one that is not RUNNING).
C18_AccountsIndependent ==
    [][/\ \A id \in TwoAccountIds :
             OperationOn(id) => \A other \in DOMAIN accounts \ {id} : Untouched(other)
       /\ \A prices \in TrailingPriceRecords :
             UpdatePrices(prices)
             => \A other \in DOMAIN accounts :
                   accounts[other].status # "RUNNING" => Untouched(other)]_vars

\* C18 witness: both accounts hold a position, one of an account that is running and
\* one of an account that is not, and the two positions have been treated differently.
C18_Witness ==
    /\ DOMAIN accounts = TwoAccountIds
    /\ \E id, other \in TwoAccountIds :
          /\ id # other
          /\ accounts[id].status = "RUNNING"
          /\ accounts[other].status # "RUNNING"
          /\ Len(accounts[id].positions) = 1
          /\ Len(accounts[other].positions) = 1
          /\ accounts[id].positions[1].status # "OPEN"
          /\ accounts[other].positions[1].status = "OPEN"

-----------------------------------------------------------------------------
(* Leverage, liquidation price and margin *)

LeverageEntryPrices == {1000, 50000}
LeverageSizes == {1, 8}
\* 0: no leverage given, the account's maxLeverage (10) is used; 20 is above it
LeverageChoices == {0, 1, 2, 5, 20}

LeverageOptionRecords == {[PlainOptions EXCEPT !.leverage = x] : x \in LeverageChoices}

NextLeverage ==
    \/ \E id \in AccountIds : CreateAccount(id, BaseConfig)
    \/ \E id \in AccountIds : Start(id)
    \/ \E prices \in TrailingPriceRecords : UpdatePrices(prices)
    \/ \E id \in AccountIds, symbol \in Symbols, direction \in Directions,
          size \in LeverageSizes, price \in LeverageEntryPrices,
          options \in LeverageOptionRecords :
            OpenPosition(id, symbol, direction, size, price, options)
    \/ \E id \in AccountIds, i \in 1..MaxPositions, price \in ClosePrices,
          reason \in ManualReasons : ClosePositionCall(id, i, price, reason)

SpecLeverage == Init /\ [][NextLeverage]_vars

\* C19: every position with leverage > 1 has liquidationPrice = entry * (1 - 1/leverage)
\* for LONG and entry * (1 + 1/leverage) for SHORT, strictly below (LONG) or above
\* (SHORT) its entry price, and margin = size * entry / leverage; entry 50000, size 1,
\* leverage 10, LONG gives liquidationPrice 45000 and margin 5000.
C19_LiquidationPriceAndMargin ==
    \A id \in DOMAIN accounts : \A i \in PositionsOf(accounts[id]) :
        LET p == accounts[id].positions[i] IN
        p.leverage > 1
        => /\ p.liquidationPrice * p.leverage
                = IF p.direction = "LONG" THEN p.avgEntryPrice * (p.leverage - 1)
                                          ELSE p.avgEntryPrice * (p.leverage + 1)
           /\ IF p.direction = "LONG" THEN p.liquidationPrice < p.avgEntryPrice
                                      ELSE p.liquidationPrice > p.avgEntryPrice
           /\ p.margin * p.leverage = p.entries[1].size * p.avgEntryPrice
           /\ (/\ p.avgEntryPrice = 50000 /\ p.entries[1].size = 1
               /\ p.leverage = 10 /\ p.direction = "LONG")
              => p.liquidationPrice = 45000 /\ p.margin = 5000

\* C19 witness: the LONG position of entry 50000, size 1, leverage 10 and a SHORT
\* position of leverage 5 have been opened.
C19_Witness ==
    \E id \in DOMAIN accounts : \E i, j \in PositionsOf(accounts[id]) :
        /\ accounts[id].positions[i].avgEntryPrice = 50000
        /\ accounts[id].positions[i].entries[1].size = 1
        /\ accounts[id].positions[i].leverage = 10
        /\ accounts[id].positions[i].direction = "LONG"
        /\ accounts[id].positions[j].direction = "SHORT"
        /\ accounts[id].positions[j].leverage = 5

-----------------------------------------------------------------------------
(* Metrics of accounts with a longer trade history *)

MaxHistory == 5

\* no fees: the pnl of a trade is (exit - entry) * size
MetricsConfig == [BaseConfig EXCEPT !.feePercent = 0]

\* exit prices of positions entered at 1000 with size 1: pnl +100 and -50
HistoryExitPrices == {1100, 950}

\* exits that give the pnl +100, -50, +200, -30, -20
ExampleExits == <<1100, 950, 1200, 970, 980>>

RECURSIVE SeqsUpTo(_, _)
SeqsUpTo(S, n) ==
    IF n = 0 THEN {<<>>}
    ELSE LET shorter == SeqsUpTo(S, n - 1)
         IN  shorter \cup {Append(s, x) : s \in shorter, x \in S}

TradedExits == SeqsUpTo(HistoryExitPrices, MaxHistory) \cup {ExampleExits}

RECURSIVE Traded(_, _)
\* the account after createAccount and, for each exit price in turn, openPosition
\* (LONG, size 1, price 1000) followed by closePosition at that price
Traded(id, exits) ==
    IF exits = <<>>
    THEN RecordEquityPoint(NewAccount(id, MetricsConfig))
    ELSE LET n == Len(exits)
             a == Traded(id, SubSeq(exits, 1, n - 1))
         IN  ClosePosition(OpenPositionBody(a, n, "ETHUSDT", "LONG", 1, 1000, PlainOptions),
                           n, exits[n], "MANUAL")

InitMetrics ==
    /\ eventCallbacks = <<>>
    /\ InitOutside
    /\ \E id \in AccountIds, exits \in TradedExits :
          /\ accounts = [x \in {id} |-> Traded(id, exits)]
          /\ positionIdCounter = Len(exits)

NextMetrics ==
    \/ \E id \in AccountIds : Start(id)
    \/ \E prices \in TrailingPriceRecords : UpdatePrices(prices)
    \/ \E id \in AccountIds, symbol \in Symbols, direction \in Directions :
          OpenPosition(id, symbol, direction, 1, 1000, PlainOptions)
    \/ \E id \in AccountIds, i \in 1..(MaxHistory + MaxPositions),
          price \in HistoryExitPrices, reason \in ManualReasons :
            ClosePositionCall(id, i, price, reason)

SpecMetrics == InitMetrics /\ [][NextMetrics]_vars

\* the pnl of the trades of a history, in order
PnlOf(trades) == [k \in 1..Len(trades) |-> trades[k].pnl]

\* the length of the longest run of consecutive trades that are wins (win = TRUE:
\* pnl > 0) or losses (win = FALSE: pnl <= 0)
LongestRun(pnls, win) ==
    LET runs == {n \in 0..Len(pnls) :
                    \E k \in 1..(Len(pnls) - n + 1) :
                        \A j \in k..(k + n - 1) : (pnls[j] > 0) = win}
    IN  CHOOSE n \in runs : \A m \in runs : m <= n

\* C20: metrics.maxWinStreak is the length of the longest run of consecutive trades
\* of the history with pnl > 0 and metrics.maxLossStreak that of the longest run with
\* pnl <= 0, both 0 for an empty history; the pnl +100, -50, +200, -30, -20 give
\* winRate 40, maxLossStreak 2 and maxWinStreak 1.
C20_StreaksAreLongestRuns ==
    \A id \in DOMAIN accounts :
        LET a    == accounts[id]
            pnls == PnlOf(a.tradeHistory)
        IN  /\ a.metrics.maxWinStreak = LongestRun(pnls, TRUE)
            /\ a.metrics.maxLossStreak = LongestRun(pnls, FALSE)
            /\ pnls = <<>> => a.metrics.maxWinStreak = 0 /\ a.metrics.maxLossStreak = 0
            /\ pnls = <<100, -50, 200, -30, -20>>
               => /\ a.metrics.winRate = 40
                  /\ a.metrics.maxLossStreak = 2
                  /\ a.metrics.maxWinStreak = 1

\* C20 witness: an account whose five trades have the pnl of the example, and whose
\* metrics count them.
C20_Witness ==
    \E id \in DOMAIN accounts :
        /\ PnlOf(accounts[id].tradeHistory) = <<100, -50, 200, -30, -20>>
        /\ accounts[id].metrics.totalTrades = 5
        /\ accounts[id].status = "RUNNING"

-----------------------------------------------------------------------------
(* TradingView webhook (src/src/app/api/webhook/tradingview/route.ts) *)

\* webhook requests handled in one behaviour
MaxRequests == 2

\* the rows of the table botConfig; autoExecuteSources is null or the JSON text of a
\* list; leverage and tradeAmount 0 stand for "not set"
BotConfigRows ==
    [isActive : BOOLEAN, autoExecuteEnabled : BOOLEAN,
     autoExecuteSources :
        {[null |-> TRUE]}
        \cup {[null |-> FALSE, list |-> l] : l \in {{}, {"TRADINGVIEW"}, {"TELEGRAM"}}},
     autoExecuteRequiresConfirmation : BOOLEAN, leverage : {0}, tradeAmount : {0}]

\* the result of parseSignal on the body of a request; leverage 0 and entryPrice 0
\* stand for a signal without leverage and with an empty entryPrices
ParsedSignals ==
    [symbol : {"BTCUSDT"}, direction : {"LONG"}, action : {"BUY", "CLOSE"},
     marketType : {"SPOT", "FUTURES"}, leverage : {0, 5}, entryPrice : {0, 1000}]

\* db.botConfig.findFirst({ where: { isActive: true } }): <<>> when there is none
RECURSIVE FindActiveBotConfig(_)
FindActiveBotConfig(rows) ==
    IF rows = <<>> THEN <<>>
    ELSE IF Head(rows).isActive THEN Head(rows) ELSE FindActiveBotConfig(Tail(rows))

RECURSIVE FindOpenPosition(_, _, _)
\* db.position.findFirst({ where: { symbol, status: "OPEN" } }): its index, 0 when none
FindOpenPosition(positions, k, symbol) ==
    IF k > Len(positions) THEN 0
    ELSE IF positions[k].symbol = symbol /\ positions[k].status = "OPEN" THEN k
    ELSE FindOpenPosition(positions, k + 1, symbol)

ExchangeType(signal) == IF signal.marketType = "SPOT" THEN "spot" ELSE "futures"

RECURSIVE FindDemoAccount(_, _, _)
\* db.account.findFirst({ where: { accountType: "DEMO", exchangeType } }): the index
\* of the row, 0 when there is none
FindDemoAccount(rows, k, exchangeType) ==
    IF k > Len(rows) THEN 0
    ELSE IF rows[k].exchangeType = exchangeType THEN k
    ELSE FindDemoAccount(rows, k + 1, exchangeType)

\* db.account.create of a demo account with USDT 10000 (openingBalance is history of
\* the model: the balance the row was created with)
NewDemoAccount(exchangeType) ==
    [exchangeType |-> exchangeType, virtualBalance |-> 10000, openingBalance |-> 10000]

\* db.account.findFirst, and db.account.create when there is none
WithDemoAccount(d, exchangeType) ==
    IF FindDemoAccount(d.accounts, 1, exchangeType) # 0 THEN d
    ELSE [d EXCEPT !.accounts = Append(@, NewDemoAccount(exchangeType))]

SetSignal(d, signalId, status, positionId) ==
    [d EXCEPT !.signals = [k \in 1..Len(d.signals) |->
                              IF d.signals[k].signalId = signalId
                              THEN [d.signals[k] EXCEPT !.status = status,
                                                        !.positionId = positionId]
                              ELSE d.signals[k]]]

\* executeSignal with autoExecute left at its default true: the database after the
\* call and the value returned
WebhookExecuteSignal(d, signal, signalId) ==
    LET botConfig == FindActiveBotConfig(d.botConfigs)
        waiting   == [success |-> TRUE, requiresConfirmation |-> TRUE, tradeId |-> 0]
    IN  IF botConfig # <<>> /\ ~botConfig.autoExecuteEnabled
        THEN [db |-> d, result |-> waiting]
        ELSE IF /\ botConfig # <<>>
                /\ ~botConfig.autoExecuteSources.null
                /\ "TRADINGVIEW" \notin botConfig.autoExecuteSources.list
        THEN [db |-> d, result |-> waiting]
        ELSE
        LET d1 == WithDemoAccount(d, ExchangeType(signal))
            leverage == IF signal.marketType = "SPOT" THEN 1
                        ELSE IF signal.leverage # 0 THEN signal.leverage
                        ELSE IF botConfig # <<>> /\ botConfig.leverage # 0
                             THEN botConfig.leverage ELSE 10
            tradeAmount == IF botConfig # <<>> /\ botConfig.tradeAmount # 0
                           THEN botConfig.tradeAmount ELSE 100
        IN  IF signal.action = "CLOSE"
            THEN LET k == FindOpenPosition(d1.positions, 1, signal.symbol) IN
                 IF k # 0
                 THEN [db |-> SetSignal([d1 EXCEPT !.positions[k].status = "CLOSED"],
                                        signalId, "CLOSED", 0),
                       result |-> [success |-> TRUE, requiresConfirmation |-> FALSE,
                                   tradeId |-> k]]
                 ELSE [db |-> d1,
                       result |-> [success |-> FALSE, requiresConfirmation |-> FALSE,
                                   tradeId |-> 0]]
            ELSE LET entryPrice == IF signal.entryPrice # 0 THEN signal.entryPrice
                                   ELSE 60000
                     pid == Len(d1.positions) + 1
                     tid == Len(d1.trades) + 1
                     account == FindDemoAccount(d1.accounts, 1, ExchangeType(signal))
                     position == [id |-> pid, accountId |-> account,
                                  symbol |-> signal.symbol,
                                  direction |-> signal.direction, status |-> "OPEN",
                                  totalAmount |-> Div(tradeAmount * leverage, entryPrice),
                                  avgEntryPrice |-> entryPrice, leverage |-> leverage]
                     trade == [id |-> tid, accountId |-> account,
                               symbol |-> signal.symbol, direction |-> signal.direction,
                               status |-> "OPEN", entryPrice |-> entryPrice,
                               leverage |-> leverage,
                               fee |-> Div(tradeAmount * leverage * 4, 10000),
                               signalSource |-> "TRADINGVIEW", positionId |-> pid]
                     d2 == [d1 EXCEPT !.positions = Append(@, position),
                                      !.trades = Append(@, trade),
                                      !.logs = Append(@, "INFO")]
                 IN  [db |-> SetSignal(d2, signalId, "ACTIVE", pid),
                      result |-> [success |-> TRUE, requiresConfirmation |-> FALSE,
                                  tradeId |-> tid]]

\* POST with a body that parseSignal rejects: a FAILED webhook log and status 400
PostUnparsed ==
    /\ Len(responses) < MaxRequests
    /\ db' = [db EXCEPT !.logs = Append(@, "FAILED")]
    /\ responses' = Append(responses, [status |-> 400, signalId |-> 0, success |-> FALSE,
                                       requiresConfirmation |-> FALSE, tradeId |-> 0])
    /\ UNCHANGED <<engineVars, invocations, strategies, runningStrategies>>

\* POST with a body that parseSignal accepts
Post(signal) ==
    LET signalId == db.signalCounter + 1
        d1 == [db EXCEPT !.signalCounter = signalId,
                         !.signals = Append(@, [signalId |-> signalId,
                                                source |-> "TRADINGVIEW",
                                                symbol |-> signal.symbol,
                                                action |-> signal.action,
                                                status |-> "PENDING", positionId |-> 0]),
                         !.logs = Append(@, "PARSED")]
        out == WebhookExecuteSignal(d1, signal, signalId)
    IN  /\ Len(responses) < MaxRequests
        /\ db' = out.db
        /\ responses' = Append(responses,
                               [status |-> 200, signalId |-> signalId,
                                success |-> out.result.success,
                                requiresConfirmation |-> out.result.requiresConfirmation,
                                tradeId |-> out.result.tradeId])
        /\ UNCHANGED <<engineVars, invocations, strategies, runningStrategies>>

\* the webhook in front of a database that holds no bot configuration or one row
InitWebhook ==
    /\ accounts = <<>>
    /\ positionIdCounter = 0
    /\ eventCallbacks = <<>>
    /\ \E rows \in {<<>>} \cup {<<r>> : r \in BotConfigRows} :
          db = [EmptyDb EXCEPT !.botConfigs = rows]
    /\ responses = <<>>
    /\ invocations = <<>>
    /\ strategies = BuiltinStrategies
    /\ runningStrategies = <<>>

NextWebhook ==
    \/ PostUnparsed
    \/ \E signal \in ParsedSignals : Post(signal)

SpecWebhook == InitWebhook /\ [][NextWebhook]_vars

\* the active bot configuration enables automatic execution of TradingView signals
\* without confirmation
AutoExecuteAllowed ==
    LET botConfig == FindActiveBotConfig(db.botConfigs) IN
    /\ botConfig # <<>>
    /\ botConfig.autoExecuteEnabled
    /\ ~botConfig.autoExecuteSources.null
    /\ "TRADINGVIEW" \in botConfig.autoExecuteSources.list
    /\ ~botConfig.autoExecuteRequiresConfirmation

\* C21: the webhook creates a position and a trade for a signal only when the active
\* bot configuration has autoExecuteEnabled with TRADINGVIEW among the allowed sources;
\* when confirmation is required or auto-execute is not enabled (or no active bot
\* configuration exists) the signal is stored and reported as requiring confirmation
\* and no position or trade is created.
C21_ExecutesOnlyWhenAutoExecuteAllowed ==
    ~AutoExecuteAllowed
    => /\ db.positions = <<>>
       /\ db.trades = <<>>
       /\ \A k \in 1..Len(responses) :
             responses[k].status = 200 /\ db.signals[responses[k].signalId].action # "CLOSE"
             => /\ responses[k].requiresConfirmation
                /\ db.signals[responses[k].signalId].status = "PENDING"

-----------------------------------------------------------------------------
(* Balance credited by closePosition *)

\* C22: closePosition credits the balance with exactly the position's margin plus the
\* net pnl (pnl minus fee) of the slice closed by that call; pnl already credited by
\* earlier take-profit partial closes is not credited a second time.
C22_CloseCreditsMarginAndSlicePnl ==
    \A id \in DOMAIN accounts : \A i \in PositionsOf(accounts[id]) :
        \A price \in ClosePrices :
            LET a == accounts[id]
                p == a.positions[i]
            IN  p.status = "OPEN"
                => ClosePosition(Fresh(id), i, price, "MANUAL").balance - a.balance
                     = p.margin + Pnl(p.direction, p.avgEntryPrice, price, p.totalSize)
                                - Fee(p.totalSize, price, a.config.feePercent)

-----------------------------------------------------------------------------
(* Unrealized pnl after a tick that fills take-profit targets *)

\* C23: after every completed price tick, every OPEN position has unrealizedPnl =
\* (currentPrice - avgEntryPrice) * totalSize for LONG and (avgEntryPrice - currentPrice)
\* * totalSize for SHORT, where totalSize is the size left after the take-profit
\* partial closes of that tick.
C23_UnrealizedPnlOfRemainingSize ==
    \A id \in DOMAIN accounts : \A prices \in PriceRecords :
        LET b == AfterTick(id, prices) IN
        \A i \in PositionsOf(b) :
            b.positions[i].status = "OPEN"
            => b.positions[i].unrealizedPnl
                 = Pnl(b.positions[i].direction, b.positions[i].avgEntryPrice,
                       b.positions[i].currentPrice, b.positions[i].totalSize)

-----------------------------------------------------------------------------
(* Aggregates of an account during a tick *)

\* C24: within one updatePrices call the aggregates of an account are recomputed only
\* after every open position has been updated with the tick's prices: the high-water
\* marks left by the call are those of the equity and drawdown of the account once
\* all its positions carry the new prices, never of a state in between.
C24_AggregatesFromFullyUpdatedPositions ==
    \A id \in DOMAIN accounts : \A prices \in PriceRecords :
        LET a == accounts[id]
            b == AfterTick(id, prices)
        IN  /\ b.maxEquity = Max(a.maxEquity, b.equity)
            /\ b.maxDrawdown = Max(a.maxDrawdown, b.currentDrawdown)

-----------------------------------------------------------------------------
(* Fees and net pnl of a trade *)

RECURSIVE SumOver(_, _)
\* the sum of one field over the entries or exits of a position
SumOver(items, field) ==
    IF items = <<>> THEN 0 ELSE Head(items)[field] + SumOver(Tail(items), field)

\* C25: for every trade, fees is the entry fee plus the sum of the exit fees, and
\* netPnl is the sum of the exits' gross pnl minus fees: every fee is subtracted
\* exactly once in netPnl.
C25_TradeNetPnlSubtractsFeesOnce ==
    \A id \in DOMAIN accounts :
        \A k \in 1..Len(accounts[id].tradeHistory) : \A i \in PositionsOf(accounts[id]) :
            LET t == accounts[id].tradeHistory[k]
                p == accounts[id].positions[i]
            IN  p.id = t.positionId
                => /\ t.fees = SumOver(p.entries, "fee") + SumOver(p.exits, "fee")
                   /\ t.netPnl = SumOver(p.exits, "pnl") - t.fees

-----------------------------------------------------------------------------
(* Leverage of positions against the account's maximum *)

\* C26: every position held by an account has leverage less than or equal to the
\* account's config.maxLeverage, whether opened by a strategy signal or by a manual
\* openPosition call with an explicit leverage option.
C26_LeverageWithinMaximum ==
    \A id \in DOMAIN accounts : \A i \in PositionsOf(accounts[id]) :
        accounts[id].positions[i].leverage <= accounts[id].config.maxLeverage

-----------------------------------------------------------------------------
(* Telegram bot: executeSignal (src/src/lib/telegram-bot-v2.ts) *)

\* executeSignal invocations started in one behaviour
MaxInvocations == 2

\* the signals executed: FUTURES with leverage 25 (fee 1 on a position of 100) or
\* 25000 (fee 10 on a position of 1)
TelegramSignals ==
    [symbol : {"BTCUSDT"}, direction : {"LONG"}, marketType : {"FUTURES"},
     leverage : {25, 25000}, entryPrice : {1000}]

\* the demo accounts found in the database when the bot starts
TelegramAccountRows ==
    {<<>>} \cup {<<[exchangeType |-> "futures", virtualBalance |-> b, openingBalance |-> b]>> :
                    b \in {10, 10000}}

\* a call of executeSignal(signal, chatId): the invocation starts, nothing awaited yet
ExecuteSignalCall(signal) ==
    /\ Len(invocations) < MaxInvocations
    /\ invocations' = Append(invocations,
                             [pc |-> "findAccount", signal |-> signal, account |-> 0,
                              balance |-> 0, signalId |-> 0, deducted |-> 0,
                              positionId |-> 0, result |-> "none"])
    /\ UNCHANGED <<engineVars, db, responses, strategies, runningStrategies>>

\* await db.account.findFirst: the invocation holds the row as it is read now
ExecuteSignalFindAccount(i) ==
    /\ i \in 1..Len(invocations)
    /\ invocations[i].pc = "findAccount"
    /\ LET k == FindDemoAccount(db.accounts, 1, ExchangeType(invocations[i].signal)) IN
       invocations' =
          IF k = 0 THEN [invocations EXCEPT ![i].pc = "createAccount"]
          ELSE [invocations EXCEPT ![i].pc = "getNextSignalId", ![i].account = k,
                                   ![i].balance = db.accounts[k].virtualBalance]
    /\ UNCHANGED <<engineVars, db, responses, strategies, runningStrategies>>

\* await db.account.create
ExecuteSignalCreateAccount(i) ==
    /\ i \in 1..Len(invocations)
    /\ invocations[i].pc = "createAccount"
    /\ db' = [db EXCEPT !.accounts =
                 Append(@, NewDemoAccount(ExchangeType(invocations[i].signal)))]
    /\ invocations' = [invocations EXCEPT ![i].pc = "getNextSignalId",
                                          ![i].account = Len(db.accounts) + 1,
                                          ![i].balance = 10000]
    /\ UNCHANGED <<engineVars, responses, strategies, runningStrategies>>

\* await getNextSignalId(): the upsert that increments the counter
ExecuteSignalNextId(i) ==
    /\ i \in 1..Len(invocations)
    /\ invocations[i].pc = "getNextSignalId"
    /\ db' = [db EXCEPT !.signalCounter = @ + 1]
    /\ invocations' = [invocations EXCEPT ![i].pc = "updateBalance",
                                          ![i].signalId = db.signalCounter + 1]
    /\ UNCHANGED <<engineVars, responses, strategies, runningStrategies>>

\* Math.min(balance.USDT * 0.1, 100)
PositionSize(balance) == IF Div(balance, 10) <= 100 THEN Div(balance, 10) ELSE 100

\* positionSize * leverage * 0.0004
TelegramFee(positionSize, leverage) == Div(positionSize * leverage * 4, 10000)

\* after await getCurrentPrice: the funds check on the balance read at the start and
\* await db.account.update with that balance less the position and the fee
ExecuteSignalUpdateBalance(i) ==
    /\ i \in 1..Len(invocations)
    /\ invocations[i].pc = "updateBalance"
    /\ LET v    == invocations[i]
           size == PositionSize(v.balance)
           cost == size + TelegramFee(size, v.signal.leverage)
       IN  IF v.balance < cost
           THEN /\ invocations' = [invocations EXCEPT ![i].pc = "done",
                                                      ![i].result = "rejected"]
                /\ db' = db
           ELSE /\ invocations' = [invocations EXCEPT ![i].pc = "createRecords",
                                                      ![i].deducted = cost]
                /\ db' = [db EXCEPT !.accounts[v.account].virtualBalance = v.balance - cost]
    /\ UNCHANGED <<engineVars, responses, strategies, runningStrategies>>

\* await db.position.create, db.trade.create, db.signal.create and sendMessage
ExecuteSignalCreateRecords(i) ==
    /\ i \in 1..Len(invocations)
    /\ invocations[i].pc = "createRecords"
    /\ LET v    == invocations[i]
           size == PositionSize(v.balance)
           pid  == Len(db.positions) + 1
           position == [id |-> pid, accountId |-> v.account, symbol |-> v.signal.symbol,
                        direction |-> v.signal.direction, status |-> "OPEN",
                        totalAmount |-> Div(size * v.signal.leverage,
                                            v.signal.entryPrice),
                        avgEntryPrice |-> v.signal.entryPrice,
                        leverage |-> v.signal.leverage]
           trade == [id |-> Len(db.trades) + 1, accountId |-> v.account,
                     symbol |-> v.signal.symbol, direction |-> v.signal.direction,
                     status |-> "OPEN", entryPrice |-> v.signal.entryPrice,
                     leverage |-> v.signal.leverage,
                     fee |-> TelegramFee(size, v.signal.leverage),
                     signalSource |-> "TELEGRAM", positionId |-> pid]
           signal == [signalId |-> v.signalId, source |-> "TELEGRAM",
                      symbol |-> v.signal.symbol, action |-> "BUY",
                      status |-> "ACTIVE", positionId |-> pid]
       IN  /\ db' = [db EXCEPT !.positions = Append(@, position),
                               !.trades = Append(@, trade),
                               !.signals = Append(@, signal)]
           /\ invocations' = [invocations EXCEPT ![i].pc = "done",
                                                 ![i].positionId = pid,
                                                 ![i].result = "opened"]
    /\ UNCHANGED <<engineVars, responses, strategies, runningStrategies>>

InitTelegram ==
    /\ accounts = <<>>
    /\ positionIdCounter = 0
    /\ eventCallbacks = <<>>
    /\ \E rows \in TelegramAccountRows : db = [EmptyDb EXCEPT !.accounts = rows]
    /\ responses = <<>>
    /\ invocations = <<>>
    /\ strategies = BuiltinStrategies
    /\ runningStrategies = <<>>

NextTelegram ==
    \/ \E signal \in TelegramSignals : ExecuteSignalCall(signal)
    \/ \E i \in 1..MaxInvocations : ExecuteSignalFindAccount(i)
    \/ \E i \in 1..MaxInvocations : ExecuteSignalCreateAccount(i)
    \/ \E i \in 1..MaxInvocations : ExecuteSignalNextId(i)
    \/ \E i \in 1..MaxInvocations : ExecuteSignalUpdateBalance(i)
    \/ \E i \in 1..MaxInvocations : ExecuteSignalCreateRecords(i)

SpecTelegram == InitTelegram /\ [][NextTelegram]_vars

RECURSIVE SumDeducted(_, _)
\* positionSize + fee summed over the invocations that created a position on an account
SumDeducted(invs, account) ==
    IF invs = <<>> THEN 0
    ELSE (IF Head(invs).result = "opened" /\ Head(invs).account = account
          THEN Head(invs).deducted ELSE 0) + SumDeducted(Tail(invs), account)

AllCompleted ==
    /\ invocations # <<>>
    /\ \A i \in 1..Len(invocations) : invocations[i].pc = "done"

\* once all invocations have completed, the stored balance of every demo account is
\* its initial balance less the positionSize + fee of each invocation that opened a
\* position on it
NoDeductionLost ==
    AllCompleted
    => \A k \in 1..Len(db.accounts) :
          db.accounts[k].virtualBalance
            = db.accounts[k].openingBalance - SumDeducted(invocations, k)

\* invocations that were all rejected for insufficient funds leave the database as
\* it was
RejectionChangesNothing ==
    /\ AllCompleted
    /\ \A i \in 1..Len(invocations) : invocations[i].result = "rejected"
    => /\ db.signalCounter = 0
       /\ \A k \in 1..Len(db.accounts) :
             db.accounts[k].virtualBalance = db.accounts[k].openingBalance

\* C27: for any interleaving of concurrent Telegram executeSignal invocations on the
\* same demo account, the stored USDT balance after all of them complete is the
\* initial balance minus the sum of positionSize + fee of every invocation that created
\* a position, and an invocation rejected for insufficient funds changes no stored
\* state.
C27_ConcurrentDeductionsAllApplied == NoDeductionLost /\ RejectionChangesNothing

-----------------------------------------------------------------------------
(* Equity-curve points on position events *)

\* a step in which a position of the account is opened, partially closed or closed
PositionEvent(id) ==
    \/ Len(accounts'[id].positions) > Len(accounts[id].positions)
    \/ \E i \in PositionsOf(accounts[id]) :
          /\ i \in PositionsOf(accounts'[id])
          /\ Len(accounts'[id].positions[i].exits) > Len(accounts[id].positions[i].exits)

\* C28: an equity-curve point is appended at account creation and on every
\* position-affecting event (position open, partial close, full close), while points
\* caused by plain price updates are limited to one per 60-second interval.
C28_EquityPointOnEveryPositionEvent ==
    [][\A id \in DOMAIN accounts' :
          /\ id \notin DOMAIN accounts => Len(accounts'[id].equityCurve) = 1
          /\ id \in DOMAIN accounts /\ PositionEvent(id)
             => Len(accounts'[id].equityCurve) > Len(accounts[id].equityCurve)
          /\ id \in DOMAIN accounts /\ ~PositionEvent(id) /\ ~accounts[id].recordDue
             /\ accounts[id].equityCurve # <<>> /\ accounts'[id].equityCurve # <<>>
             => Len(accounts'[id].equityCurve) <= Len(accounts[id].equityCurve)]_vars

-----------------------------------------------------------------------------
(* Strategy manager (src/src/lib/strategy/manager.ts) *)

\* ids of strategies, as the sequences of the parts that "_" separates: "rsi", "macd"
\* and "rsi_BTCUSDT_1h"
StrategyIds == {<<"rsi">>, <<"macd">>, <<"rsi", "BTCUSDT", "1h">>}
Timeframes == {"1h"}

\* `${strategyId}_${symbol}_${timeframe}`
RunningId(strategyId, symbol, timeframe) == strategyId \o <<symbol, timeframe>>

Register(strategyId) ==
    /\ strategies' = strategies \cup {strategyId}
    /\ UNCHANGED <<engineVars, db, responses, invocations, runningStrategies>>

\* this.strategies.delete(strategyId); this.stop(strategyId)
Unregister(strategyId) ==
    /\ strategies' = strategies \ {strategyId}
    /\ runningStrategies' = [k \in DOMAIN runningStrategies \ {strategyId} |->
                                runningStrategies[k]]
    /\ UNCHANGED <<engineVars, db, responses, invocations>>

\* start of a registered strategy without parameters (for an unknown strategy start
\* returns an error and changes nothing)
StrategyStart(strategyId, symbol, timeframe) ==
    /\ strategyId \in strategies
    /\ LET runningId == RunningId(strategyId, symbol, timeframe) IN
       runningStrategies' =
          [k \in DOMAIN runningStrategies \cup {runningId} |->
              IF k = runningId
              THEN [id |-> runningId, strategyId |-> strategyId, symbol |-> symbol,
                    timeframe |-> timeframe, status |-> "IDLE", updates |-> 0]
              ELSE runningStrategies[k]]
    /\ UNCHANGED <<engineVars, db, responses, invocations, strategies>>

StrategyStop(runningId) ==
    /\ runningStrategies' = [k \in DOMAIN runningStrategies \ {runningId} |->
                                runningStrategies[k]]
    /\ UNCHANGED <<engineVars, db, responses, invocations, strategies>>

StopAll ==
    /\ runningStrategies' = <<>>
    /\ UNCHANGED <<engineVars, db, responses, invocations, strategies>>

\* update of a running strategy that is found: analyze runs, lastUpdate is set and
\* the status returns to IDLE (updates, at most 1, is the mark left by lastUpdate);
\* for an id that is not found update returns an ERROR result and changes nothing
StrategyUpdate(runningId) ==
    /\ runningId \in DOMAIN runningStrategies
    /\ runningStrategies' = [runningStrategies EXCEPT ![runningId].status = "IDLE",
                                                      ![runningId].updates = 1]
    /\ UNCHANGED <<engineVars, db, responses, invocations, strategies>>

RunningIds == {RunningId(s, symbol, t) : s \in StrategyIds, symbol \in Symbols, t \in Timeframes}

NextStrategies ==
    \/ \E strategyId \in StrategyIds : Register(strategyId)
    \/ \E strategyId \in StrategyIds : Unregister(strategyId)
    \/ \E strategyId \in StrategyIds, symbol \in Symbols, timeframe \in Timeframes :
          StrategyStart(strategyId, symbol, timeframe)
    \/ \E runningId \in RunningIds : StrategyStop(runningId)
    \/ StopAll
    \/ \E runningId \in RunningIds : StrategyUpdate(runningId)

SpecStrategies == Init /\ [][NextStrategies]_vars

\* C29: after unregister(strategyId) no running strategy started from that strategy
\* remains: every entry created by start(strategyId, symbol, timeframe) is gone from
\* getRunningStrategies(), so a later update() of such an entry reports it as not
\* found.
C29_UnregisterStopsRunningStrategies ==
    [][\A strategyId \in StrategyIds :
          Unregister(strategyId)
          => \A runningId \in DOMAIN runningStrategies' :
                runningStrategies'[runningId].strategyId # strategyId]_vars

-----------------------------------------------------------------------------
(* Subscribers that unsubscribe while an event is delivered *)

ReentrantCallbacks == {"cb1", "cb2", "cbOnce"}

NextReentrant ==
    \/ \E id \in AccountIds, config \in Configs : CreateAccount(id, config)
    \/ \E id \in AccountIds : Start(id)
    \/ \E id \in AccountIds : Stop(id)
    \/ \E callback \in ReentrantCallbacks : Subscribe(callback)
    \/ \E callback \in ReentrantCallbacks : Unsubscribe(callback)

SpecReentrant == Init /\ [][NextReentrant]_vars

\* the number of places of a sequence that hold x
Count(seq, x) == Cardinality({k \in 1..Len(seq) : seq[k] = x})

\* C30: every callback that is subscribed at the moment an event is emitted receives
\* that event exactly once, even when a callback calls unsubscribe while the event is
\* being delivered.
C30_EverySubscriberReceivesEvent ==
    [][\A id \in AccountIds, config \in Configs :
          CreateAccount(id, config)
          => \A callback \in ReentrantCallbacks :
                Count(accounts'[id].delivered,
                      [callback |-> callback, type |-> "BALANCE_UPDATE"])
                  = Count(eventCallbacks, callback)]_vars

=============================================================================
